---- MODULE Spec2Model ----
(***************************************************************************)
(* A model of the NodeGraphQt graph data model, its port connection       *)
(* engine (ports/base_model.py) and its undo commands (base/commands.py), *)
(* driven through a QUndoStack.                                            *)
(***************************************************************************)
EXTENDS Integers, Sequences, FiniteSets, TLC

(* ------------------------------------------------------------------ *)
(* Bounds and the fixed universe of nodes and ports.                   *)
(* ------------------------------------------------------------------ *)

\* Largest number of entries the undo stack may hold before the
\* operations that push are no longer offered.
MaxStack == 2

\* How many times one peer may be listed before editing stops.
MaxDup == 2

NodeIds == {"a", "b", "c"}

IN_PORT == "in"
OUT_PORT == "out"

\* Every node is a BaseNode with one input named "in" and one output
\* named "out" (BaseNode.add_input / add_output).
Port(n, d) == [node |-> n, dtype |-> d, name |-> d]

Ports == {Port(n, d) : n \in NodeIds, d \in {IN_PORT, OUT_PORT}}

Opposite(d) == IF d = IN_PORT THEN OUT_PORT ELSE IN_PORT

\* add_input(multi_input=False) and add_output(multi_output=True) are the
\* defaults; node "b" declares its output with multi_output=False and node
\* "a" its input with multi_input=True.
multi_connection(p) ==
    \/ p.dtype = OUT_PORT /\ p.node # "b"
    \/ p.dtype = IN_PORT /\ p.node = "a"

\* Node "c" declares its input with locked=True (add_input(locked=True)):
\* Port.locked and the view's locked flag both start true for it.
CreatedLocked(p) == p = Port("c", IN_PORT)

\* Node type identifier (__identifier__ + "." + class name): the three
\* nodes are instances of three registered classes.
identifier(n) == IF n = "a" THEN "nodes.A" ELSE IF n = "b" THEN "nodes.B" ELSE "nodes.C"

(* ------------------------------------------------------------------ *)
(* Program state.                                                      *)
(* ------------------------------------------------------------------ *)
VARIABLES
    created,      \* node objects constructed so far (still referenced by commands)
    nodes,        \* NodeGraphModel.nodes: ids of the nodes in the graph
    connected_ports, \* Port.connected_ports: ordered dict node id -> list of port names
    locked,       \* Port.locked (the field connect_to / disconnect_from read)
    view_locked,  \* PortItem.locked (the field the lock commands write)
    custom,       \* NodeModel._custom_prop["value"] of each node
    accept_connection_types,  \* NodeGraphModel.accept_connection_types
    reject_connection_types,  \* NodeGraphModel.reject_connection_types
    acyclic,      \* NodeGraphModel.acyclic
    stack,        \* QUndoStack command list: each entry a sequence of commands
    index,        \* QUndoStack index (number of applied entries)
    depth,        \* QUndoStack macro nesting depth (0: no macro being composed)
    snap,         \* history: snap[i+1] is the state observed when entry i was completed
    last,         \* the last operation called and how it ended
    factory,      \* NodeFactory: [nodes: node type -> class, names: alias -> node types]
    text_color,   \* NodeModel.text_color of each node
    doc,          \* the document returned by the last _serialize
    loaded,       \* the graph the last _deserialize built from doc
    session,      \* NodeGraphModel.session: path of the session file ("" for none)
    nodes_deleted, \* whether the last call emitted NodeGraph.nodes_deleted
    property_changed, \* whether the last call emitted NodeGraph.property_changed
    node_name,    \* of each node: [model: NodeModel.name, view: NodeItem.name]
    rank_calls,   \* the number of _update_node_rank calls the last auto_layout_nodes made
    nodes_rank    \* the nodes_rank dict of the last auto_layout_nodes: the rank (column)
                  \* each node was laid out at, -1 for a node that is not in the dict

vars == <<created, nodes, connected_ports, locked, view_locked, custom,
          accept_connection_types, reject_connection_types, acyclic,
          stack, index, depth, snap, last, factory, text_color, doc, loaded, session,
          nodes_deleted, property_changed, node_name, nodes_rank, rank_calls>>

\* The state as one record, threaded through the operations below.
\* propagates: whether an exception raised by a command's redo() while
\* QUndoStack.push runs it reaches the caller of push (it depends on the Qt
\* binding; each call is given either answer).
G == [nodes |-> nodes, cp |-> connected_ports, locked |-> locked,
      view_locked |-> view_locked, custom |-> custom,
      accept |-> accept_connection_types, reject |-> reject_connection_types,
      acyclic |-> acyclic,
      stack |-> stack, index |-> index, depth |-> depth, snap |-> snap,
      text_color |-> text_color, nodes_deleted |-> FALSE, name |-> node_name,
      property_changed |-> FALSE,
      rank |-> nodes_rank, rank_calls |-> rank_calls,
      propagates |-> FALSE]

(* ------------------------------------------------------------------ *)
(* Port.connected_ports: a defaultdict(list) keyed by node id.         *)
(* Keys keep their insertion order and are never deleted.              *)
(* ------------------------------------------------------------------ *)

HasKey(d, id) == \E i \in 1..Len(d) : d[i].id = id

KeyIndex(d, id) == CHOOSE i \in 1..Len(d) : d[i].id = id

\* d.get(id): the list stored under id, or None (modelled as <<>>,
\* every use treats None and an empty list alike).
DictGet(d, id) == IF HasKey(d, id) THEN d[KeyIndex(d, id)].names ELSE <<>>

\* A membership test that never finds its element.
InSeq_never(x, s) == FALSE

\* x in s
InSeq(x, s) == \E i \in 1..Len(s) : s[i] = x

\* list.remove(x): removes the first occurrence.
ListRemove(s, x) ==
    LET i == CHOOSE i \in 1..Len(s) : s[i] = x /\ \A j \in 1..(i-1) : s[j] # x
    IN SubSeq(s, 1, i-1) \o SubSeq(s, i+1, Len(s))

\* d[id].append(name) on a defaultdict(list).
DictAppend(d, id, name) ==
    IF HasKey(d, id)
    THEN [d EXCEPT ![KeyIndex(d, id)].names = Append(@, name)]
    ELSE Append(d, [id |-> id, names |-> <<name>>])

\* port_names = d.get(id); if port_names and name in port_names:
\*     port_names.remove(name)
DictRemove(d, id, name) ==
    IF HasKey(d, id) /\ InSeq(name, DictGet(d, id))
    THEN [d EXCEPT ![KeyIndex(d, id)].names = ListRemove(@, name)]
    ELSE d

\* The (node id, port name) pairs of d in iteration order.
RECURSIVE NamesOf(_, _)
NamesOf(id, names) ==
    IF names = <<>> THEN <<>>
    ELSE <<[id |-> id, name |-> Head(names)]>> \o NamesOf(id, Tail(names))

RECURSIVE Entries(_)
Entries(d) ==
    IF d = <<>> THEN <<>>
    ELSE NamesOf(d[1].id, d[1].names) \o Entries(Tail(d))

PeerSet(d) == {Entries(d)[i] : i \in 1..Len(Entries(d))}

\* The elements of a sequence.
Range(s) == {s[i] : i \in 1..Len(s)}

(* ------------------------------------------------------------------ *)
(* Port.get_connected_ports                                            *)
(* ------------------------------------------------------------------ *)

\* One peer entry resolved as get_connected_ports resolves it:
\* graph.get_node_by_id(id) is None for a node that is not in the graph
\* (None.outputs() raises AttributeError); node.outputs()[name] (for an
\* input port) or node.inputs()[name] (for an output port) raises KeyError
\* when the node has no port of the opposite direction with that name.
ResolveErr(g, p, e) ==
    IF e.id \notin g.nodes THEN "AttributeError"
    ELSE IF Port(e.id, Opposite(p.dtype)).name # e.name THEN "KeyError"
    ELSE "ok"

Resolve(p, e) == Port(e.id, Opposite(p.dtype))

\* [err, ports]: err is "ok" and ports the connected ports in iteration
\* order, or err names the exception raised at the first entry that does
\* not resolve.
get_connected_ports(g, p) ==
    LET es  == Entries(g.cp[p])
        bad == {i \in 1..Len(es) : ResolveErr(g, p, es[i]) # "ok"}
    IN IF bad = {}
       THEN [err |-> "ok", ports |-> [i \in 1..Len(es) |-> Resolve(p, es[i])]]
       ELSE LET i == CHOOSE i \in bad : \A j \in bad : i <= j
            IN [err |-> ResolveErr(g, p, es[i]), ports |-> <<>>]

(* ------------------------------------------------------------------ *)
(* The observable state: node set, per-node properties, connections.   *)
(* ------------------------------------------------------------------ *)

PortsOf(ns) == {p \in Ports : p.node \in ns}

\* Every peer entry held by a port of a node in the graph.
Connections(g) ==
    UNION {{<<p, e>> : e \in PeerSet(g.cp[p])} : p \in PortsOf(g.nodes)}

StateView(g) ==
    [nodes |-> g.nodes,
     custom |-> [n \in g.nodes |-> g.custom[n]],
     connections |-> Connections(g)]

(* ------------------------------------------------------------------ *)
(* Undo commands (base/commands.py).                                   *)
(* ------------------------------------------------------------------ *)

PropertyChangedCmd(n, old, new) == [cmd |-> "PropertyChanged", node |-> n, old_val |-> old, new_val |-> new]
NodeAddedCmd(n, emit_signal) == [cmd |-> "NodeAdded", node |-> n, emit_signal |-> emit_signal]
NodesRemovedCmd(n, emit_signal) == [cmd |-> "NodesRemoved", node |-> n, emit_signal |-> emit_signal]
NodeInputConnectedCmd(src, trg) == [cmd |-> "NodeInputConnected", source |-> src, target |-> trg]
NodeInputDisconnectedCmd(src, trg) == [cmd |-> "NodeInputDisconnected", source |-> src, target |-> trg]
PortConnectedCmd(src, trg) == [cmd |-> "PortConnected", source |-> src, target |-> trg]
PortDisconnectedCmd(src, trg) == [cmd |-> "PortDisconnected", source |-> src, target |-> trg]
PortLockedCmd(p) == [cmd |-> "PortLocked", port |-> p]
PortUnlockedCmd(p) == [cmd |-> "PortUnlocked", port |-> p]

\* A connect that records the target on the source side only.
AppendPeers_source_only(g, src, trg) ==
    [g EXCEPT !.cp[src] = DictAppend(@, trg.node, trg.name)]

\* PortConnectedCmd.redo and PortDisconnectedCmd.undo:
\*   src.connected_ports[trg_id].append(trg name)
\*   trg.connected_ports[src_id].append(src name)
AppendPeers(g, src, trg) ==
    LET cp1 == [g.cp EXCEPT ![src] = DictAppend(@, trg.node, trg.name)]
        cp2 == [cp1 EXCEPT ![trg] = DictAppend(@, src.node, src.name)]
    IN [g EXCEPT !.cp = cp2]

\* PortConnectedCmd.undo and PortDisconnectedCmd.redo: each side's name is
\* removed from the other side's list when it is there ("port_names is []"
\* is never true, so no key is deleted).
RemovePeers(g, src, trg) ==
    LET cp1 == [g.cp EXCEPT ![src] = DictRemove(@, trg.node, trg.name)]
        cp2 == [cp1 EXCEPT ![trg] = DictRemove(@, src.node, src.name)]
    IN [g EXCEPT !.cp = cp2]

\* PropertyChangedCmd.set_node_property: NodeModel.set_property on a
\* custom property stores the value in _custom_prop; graph.property_changed
\* is emitted.
set_node_property(g, n, value) ==
    [g EXCEPT !.custom[n] = value, !.property_changed = TRUE]

\* PropertyChangedCmd.set_node_property("name", value):
\* model.set_property assigns into the dict NodeModel.properties has just
\* built, which leaves model.name as it was; "name" is a view property, so
\* setattr(view, "name", value) sets the view's name; graph.property_changed
\* is emitted.
set_node_name(g, n, value) ==
    [g EXCEPT !.name[n].view = value, !.property_changed = TRUE]

RedoCmd(g, c) ==
    CASE c.cmd = "PropertyChanged" ->
            IF c.old_val # c.new_val THEN set_node_property(g, c.node, c.new_val) ELSE g
      [] c.cmd = "NameChanged"      ->
            IF c.old_val # c.new_val THEN set_node_name(g, c.node, c.new_val) ELSE g
      [] c.cmd = "NodeAdded"        -> [g EXCEPT !.nodes = @ \cup {c.node}]
      [] c.cmd = "NodesRemoved"     ->
            [g EXCEPT !.nodes = @ \ {c.node},
                      !.nodes_deleted = @ \/ c.emit_signal]
      [] c.cmd = "PortConnected"    -> AppendPeers(g, c.source, c.target)
      [] c.cmd = "PortDisconnected" -> RemovePeers(g, c.source, c.target)
      [] c.cmd = "PortLocked"       -> [g EXCEPT !.view_locked[c.port] = TRUE]
      [] c.cmd = "PortUnlocked"     -> [g EXCEPT !.view_locked[c.port] = FALSE]
      [] OTHER                      -> g

\* A faulty undo: PortDisconnectedCmd.undo records the connection twice.
UndoCmd_twice(g, c) ==
    CASE c.cmd = "PropertyChanged" ->
            IF c.old_val # c.new_val THEN set_node_property(g, c.node, c.old_val) ELSE g
      [] c.cmd = "NameChanged"      ->
            IF c.old_val # c.new_val THEN set_node_name(g, c.node, c.old_val) ELSE g
      [] c.cmd = "NodeAdded"        ->
            [g EXCEPT !.nodes = @ \ {c.node},
                      !.nodes_deleted = @ \/ c.emit_signal]
      [] c.cmd = "NodesRemoved"     -> [g EXCEPT !.nodes = @ \cup {c.node}]
      [] c.cmd = "PortConnected"    -> RemovePeers(g, c.source, c.target)
      [] c.cmd = "PortDisconnected" ->
            AppendPeers(AppendPeers(g, c.source, c.target), c.source, c.target)
      [] c.cmd = "PortLocked"       -> [g EXCEPT !.view_locked[c.port] = FALSE]
      [] c.cmd = "PortUnlocked"     -> [g EXCEPT !.view_locked[c.port] = TRUE]
      [] OTHER                      -> g

UndoCmd(g, c) ==
    CASE c.cmd = "PropertyChanged" ->
            IF c.old_val # c.new_val THEN set_node_property(g, c.node, c.old_val) ELSE g
      [] c.cmd = "NameChanged"      ->
            IF c.old_val # c.new_val THEN set_node_name(g, c.node, c.old_val) ELSE g
      [] c.cmd = "NodeAdded"        ->
            [g EXCEPT !.nodes = @ \ {c.node},
                      !.nodes_deleted = @ \/ c.emit_signal]
      [] c.cmd = "NodesRemoved"     -> [g EXCEPT !.nodes = @ \cup {c.node}]
      [] c.cmd = "PortConnected"    -> RemovePeers(g, c.source, c.target)
      [] c.cmd = "PortDisconnected" -> AppendPeers(g, c.source, c.target)
      [] c.cmd = "PortLocked"       -> [g EXCEPT !.view_locked[c.port] = FALSE]
      [] c.cmd = "PortUnlocked"     -> [g EXCEPT !.view_locked[c.port] = TRUE]
      [] OTHER                      -> g

(* ------------------------------------------------------------------ *)
(* QUndoStack.                                                         *)
(* ------------------------------------------------------------------ *)

\* The history variable: the state observed when an entry is completed.
Observe(g) == [g EXCEPT !.snap = Append(@, StateView(g))]

\* beginMacro: the outermost macro becomes a new entry after the cursor
\* (the redo tail is discarded); nested macros add to the entry being
\* composed.
beginMacro(g) ==
    IF g.depth = 0
    THEN [g EXCEPT !.stack = Append(SubSeq(@, 1, g.index), <<>>),
                   !.snap = SubSeq(@, 1, g.index + 1),
                   !.depth = 1]
    ELSE [g EXCEPT !.depth = @ + 1]

\* endMacro: closing the outermost macro moves the cursor past the entry.
endMacro(g) ==
    IF g.depth = 0 THEN g
    ELSE IF g.depth = 1
    THEN Observe([g EXCEPT !.depth = 0, !.index = @ + 1])
    ELSE [g EXCEPT !.depth = @ - 1]

\* push: redo() runs at once; outside a macro the command is a new entry
\* after the cursor, inside one it is appended to the entry being composed.
Pushed(g1, c) ==
    IF g1.depth = 0
    THEN Observe([g1 EXCEPT !.stack = Append(SubSeq(@, 1, g1.index), <<c>>),
                            !.snap = SubSeq(@, 1, g1.index + 1),
                            !.index = @ + 1])
    ELSE [g1 EXCEPT !.stack[Len(g1.stack)] = Append(@, c)]

push(g, c) == Pushed(RedoCmd(g, c), c)

RECURSIVE RedoAll(_, _)
RedoAll(g, cs) == IF cs = <<>> THEN g ELSE RedoAll(RedoCmd(g, Head(cs)), Tail(cs))

RECURSIVE UndoAll(_, _)
UndoAll(g, cs) ==
    IF cs = <<>> THEN g
    ELSE UndoAll(UndoCmd(g, cs[Len(cs)]), SubSeq(cs, 1, Len(cs) - 1))

\* undo: nothing while a macro is being composed or at the bottom.
undo(g) ==
    IF g.depth > 0 \/ g.index = 0 THEN g
    ELSE [UndoAll(g, g.stack[g.index]) EXCEPT !.index = g.index - 1]

\* redo: nothing while a macro is being composed or at the top.
redo(g) ==
    IF g.depth > 0 \/ g.index = Len(g.stack) THEN g
    ELSE [RedoAll(g, g.stack[g.index + 1]) EXCEPT !.index = g.index + 1]

\* An operation's outcome: the state it leaves and how it ended
\* ("ok", or the exception that left the call).
Ret(g, out) == [g |-> g, out |-> out]

\* A call followed by the rest of its caller: an exception raised by the
\* call leaves the caller too.
Then(r, Rest(_)) == IF r.out # "ok" THEN r ELSE Rest(r.g)

\* PortXCmd pushed on the stack, or its redo() called directly.
Apply(g, c, push_undo) == IF push_undo THEN push(g, c) ELSE RedoCmd(g, c)

(* ------------------------------------------------------------------ *)
(* Connection constraints and the cycle check.                         *)
(* ------------------------------------------------------------------ *)

\* Port.accepted_port_types / rejected_port_types of p, looked up for the
\* peer's node type: the table rows <<node type, port type, port name,
\* peer node type, peer port type, peer port name>> of p for that type.
TypesFor(table, p, node_type) ==
    {t \in table : /\ t[1] = identifier(p.node) /\ t[2] = p.dtype
                   /\ t[3] = p.name /\ t[4] = node_type}

\* A row of a constraint table: port p of its node type, and the peer
\* port name, port type and node type it names.
Row(p, pname, ptype, ntype) ==
    <<identifier(p.node), p.dtype, p.name, ntype, ptype, pname>>

\* NodeGraphModel.add_accept_port_type(node, port, accept_pname,
\* accept_ptype, accept_ntype)
add_accept_port_type(g, port, accept_pname, accept_ptype, accept_ntype) ==
    [g EXCEPT !.accept = @ \cup {Row(port, accept_pname, accept_ptype, accept_ntype)}]

\* NodeGraphModel.add_reject_port_type(node, port, reject_pname,
\* reject_ptype, reject_ntype)
add_reject_port_type(g, port, reject_pname, reject_ptype, reject_ntype) ==
    [g EXCEPT !.reject = @ \cup {Row(port, reject_pname, reject_ptype, reject_ntype)}]

\* A faulty accept test that lets every port through.
AcceptOk_always(g, me, other) == TRUE

\* A faulty reject test that reads only the tables of output ports.
RejectOk_outputs_only(g, me, other) ==
    me.dtype = OUT_PORT \/
    ~ \E t \in TypesFor(g.reject, other, identifier(me.node)) :
          t[5] = me.dtype /\ t[6] = me.name

\* "validate accept connection": when `other` has accept rows for the node
\* type of `me`, the name of `me` must be among those of its port type.
AcceptOk(g, me, other) ==
    LET accepted_types == TypesFor(g.accept, other, identifier(me.node))
    IN accepted_types # {} =>
          \E t \in accepted_types : t[5] = me.dtype /\ t[6] = me.name

\* "validate reject connection".
RejectOk(g, me, other) ==
    LET rejected_types == TypesFor(g.reject, other, identifier(me.node))
    IN ~ \E t \in rejected_types : t[5] = me.dtype /\ t[6] = me.name

\* Directed edges of the node graph: one per output-to-input connection.
OutPorts == {p \in Ports : p.dtype = OUT_PORT}

Edges(g) ==
    UNION {{<<p.node, e.id>> : e \in {x \in PeerSet(g.cp[p]) : x.name = IN_PORT}} :
               p \in OutPorts}

RECURSIVE ReachFrom(_, _)
ReachFrom(S, E) ==
    LET N == S \cup {e[2] : e \in {x \in E : x[1] \in S}}
    IN IF N = S THEN S ELSE ReachFrom(N, E)

Reverse(E) == {<<e[2], e[1]>> : e \in E}

\* viewer.acyclic_check(start, end): true when joining the two ports would
\* close a cycle: the start node is reached from the end node, walking
\* downstream from an input end port and upstream from an output end port.
acyclic_check(g, start_port, end_port) ==
    IF end_port.dtype = IN_PORT
    THEN start_port.node \in ReachFrom({end_port.node}, Edges(g))
    ELSE start_port.node \in ReachFrom({end_port.node}, Reverse(Edges(g)))

HasCycle(g) == \E n \in NodeIds : \E e \in Edges(g) : e[1] = n /\ n \in ReachFrom({e[2]}, Edges(g))

(* ------------------------------------------------------------------ *)
(* Port operations (ports/base_model.py).                              *)
(* ------------------------------------------------------------------ *)

\* NodeInput*Cmd.__init__: source is the input port of the pair.
InputFirst(c, src, trg) ==
    IF src.dtype = IN_PORT THEN [cmd |-> c, source |-> src, target |-> trg]
    ELSE [cmd |-> c, source |-> trg, target |-> src]

\* PortDisconnectedCmd followed by NodeInputDisconnectedCmd.
Disconnect(g, src, trg, push_undo) ==
    Apply(Apply(g, PortDisconnectedCmd(src, trg), push_undo),
          InputFirst("NodeInputDisconnected", src, trg), push_undo)

\* PortConnectedCmd followed by NodeInputConnectedCmd.
Connect(g, src, trg, push_undo) ==
    Apply(Apply(g, PortConnectedCmd(src, trg), push_undo),
          InputFirst("NodeInputConnected", src, trg), push_undo)

Begin(g, push_undo) == IF push_undo THEN beginMacro(g) ELSE g
End(g, push_undo) == IF push_undo THEN endMacro(g) ELSE g

\* The signal emission that ends PortConnectedCmd.redo and
\* PortDisconnectedCmd.redo looks both ports up by direction,
\* ports[IN] and ports[OUT]: KeyError when the two have the same direction.
EmitRaises(src, trg) == src.dtype = trg.dtype

\* Whether that KeyError leaves the call: always when redo() is called
\* directly, and when the binding lets it through push.
Escapes(g, src, trg, push_undo) == EmitRaises(src, trg) /\ (~push_undo \/ g.propagates)

\* The lock test of connect_to and disconnect_from.
IsLocked(g, p) == g.locked[p]

\* Port.connect_to(self, port, push_undo)
connect_to(g, self, port, push_undo) ==
    LET pc == get_connected_ports(g, port)
    IN IF pc.err # "ok" THEN Ret(g, pc.err)
       ELSE IF InSeq(self, pc.ports) THEN Ret(g, "ok")
       ELSE IF IsLocked(g, self) \/ IsLocked(g, port) THEN Ret(g, "PortError")
       ELSE IF ~AcceptOk(g, self, port) \/ ~AcceptOk(g, port, self) THEN Ret(g, "ok")
       ELSE IF ~RejectOk(g, self, port) \/ ~RejectOk(g, port, self) THEN Ret(g, "ok")
       ELSE
         LET g1 == Begin(g, push_undo)
             sc == get_connected_ports(g1, self)
         IN IF sc.err # "ok" THEN Ret(g1, sc.err)
            ELSE
              LET has_pre == ~multi_connection(self) /\ sc.ports # <<>>
                  pre_conn_port == sc.ports[1]
              IN IF g1.acyclic /\ acyclic_check(g1, self, port) /\ has_pre
                 THEN Ret(End(Disconnect(g1, self, pre_conn_port, push_undo), push_undo), "ok")
                 ELSE
                   LET tc == get_connected_ports(g1, port).ports
                       g2 == IF ~multi_connection(port) /\ tc # <<>>
                             THEN Disconnect(g1, port, tc[1], push_undo) ELSE g1
                       g3 == IF has_pre
                             THEN Disconnect(g2, self, pre_conn_port, push_undo) ELSE g2
                   IN IF Escapes(g, self, port, push_undo)
                      THEN Ret(Apply(g3, PortConnectedCmd(self, port), push_undo), "KeyError")
                      ELSE Ret(End(Connect(g3, self, port, push_undo), push_undo), "ok")

\* Port.disconnect_from(self, port, push_undo)
disconnect_from(g, self, port, push_undo) ==
    IF IsLocked(g, self) \/ IsLocked(g, port) THEN Ret(g, "PortError")
    ELSE IF Escapes(g, self, port, push_undo)
    THEN Ret(Apply(Begin(g, push_undo), PortDisconnectedCmd(self, port), push_undo), "KeyError")
    ELSE Ret(End(Disconnect(Begin(g, push_undo), self, port, push_undo), push_undo), "ok")

\* for cp in self.get_connected_ports(): self.disconnect_from(cp, ...)
\* (the list is built before the loop; an exception leaves the loop).
RECURSIVE DisconnectEach(_, _, _, _)
DisconnectEach(g, self, cps, push_undo) ==
    IF cps = <<>> THEN Ret(g, "ok")
    ELSE Then(disconnect_from(g, self, Head(cps), push_undo),
              LAMBDA h : DisconnectEach(h, self, Tail(cps), push_undo))

\* A clear_connections that disconnects the first connected port only.
clear_connections_first(g, self, push_undo) ==
    IF IsLocked(g, self) THEN Ret(g, "PortError")
    ELSE LET cps == get_connected_ports(g, self)
         IN IF cps.err # "ok" THEN Ret(g, cps.err)
            ELSE IF cps.ports = <<>> THEN Ret(g, "ok")
            ELSE Then(disconnect_from(Begin(g, push_undo), self, cps.ports[1], push_undo),
                      LAMBDA h : Ret(End(h, push_undo), "ok"))

\* Port.clear_connections(self, push_undo)
clear_connections(g, self, push_undo) ==
    IF IsLocked(g, self) THEN Ret(g, "PortError")
    ELSE LET cps == get_connected_ports(g, self)
         IN IF cps.err # "ok" THEN Ret(g, cps.err)
            ELSE IF cps.ports = <<>> THEN Ret(g, "ok")
            ELSE Then(DisconnectEach(Begin(g, push_undo), self, cps.ports, push_undo),
                      LAMBDA h : Ret(End(h, push_undo), "ok"))

\* port.set_locked(state, connected_ports=False, push_undo)
set_locked_one(g, self, state, push_undo) ==
    IF state = g.locked[self] THEN g
    ELSE Apply(g, IF state THEN PortLockedCmd(self) ELSE PortUnlockedCmd(self), push_undo)

RECURSIVE LockEach(_, _, _, _)
LockEach(g, cps, state, push_undo) ==
    IF cps = <<>> THEN g
    ELSE LockEach(set_locked_one(g, Head(cps), state, push_undo), Tail(cps), state, push_undo)

\* Port.set_locked(self, state, connected_ports, push_undo)
set_locked(g, self, state, conn_ports, push_undo) ==
    IF state = g.locked[self] THEN Ret(g, "ok")
    ELSE LET g1 == set_locked_one(g, self, state, push_undo)
         IN IF ~conn_ports THEN Ret(g1, "ok")
            ELSE LET cps == get_connected_ports(g1, self)
                 IN IF cps.err # "ok" THEN Ret(g1, cps.err)
                    ELSE Ret(LockEach(g1, cps.ports, state, push_undo), "ok")

(* ------------------------------------------------------------------ *)
(* Node names (NodeGraph.get_unique_name).                             *)
(* ------------------------------------------------------------------ *)

\* The class each node is an instance of, and a second class declaring
\* the node type of "a".
Class(n) == IF n = "a" THEN "A" ELSE IF n = "b" THEN "B" ELSE "C"

\* NODE_NAME of the class of node n.
NODE_NAME(n) == Class(n)

\* The names without a trailing number that occur, and the names
\* f"{name} {x}" built from them.
BaseNames == {"A", "B", "C", "X"}

Versioned(name, x) ==
    CASE name = "A" -> <<"A 1", "A 2", "A 3", "A 4">>[x]
      [] name = "B" -> <<"B 1", "B 2", "B 3", "B 4">>[x]
      [] name = "C" -> <<"C 1", "C 2", "C 3", "C 4">>[x]
      [] OTHER      -> <<"X 1", "X 2", "X 3", "X 4">>[x]

\* " ".join(name.split()): surrounding and repeated blanks are dropped.
Normalize(name) ==
    CASE name = " A" -> "A"
      [] name = "A  1" -> "A 1"
      [] OTHER -> name

\* regex.search(r"\w+ (\d+)$") and name[: len(version) * -1].strip(): the
\* name without its trailing number (the name itself when it has none).
Unversioned(name) ==
    IF \E b \in BaseNames, x \in 1..4 : Versioned(b, x) = name
    THEN CHOOSE b \in BaseNames : \E x \in 1..4 : Versioned(b, x) = name
    ELSE name

\* get_unique_name over the list node_names (its set of names and its
\* length): the name itself when no node has it, else the first
\* f"{name} {x}", x from 1 to len(node_names) + 1, that no node has.
UniqueName(node_names, len, name) ==
    IF Normalize(name) \notin node_names THEN Normalize(name)
    ELSE Versioned(Unversioned(Normalize(name)),
                   CHOOSE x \in 1..(len + 1) :
                       /\ Versioned(Unversioned(Normalize(name)), x) \notin node_names
                       /\ \A y \in 1..(x - 1) :
                             Versioned(Unversioned(Normalize(name)), y) \in node_names)

\* NodeGraph.get_unique_name(name): node_names are the view names of the
\* nodes of the graph.
get_unique_name(g, name) ==
    UniqueName({g.name[n].view : n \in g.nodes}, Cardinality(g.nodes), name)

\* PropertyChangedCmd(node, "name", value): old_val is read from the model.
NameChangedCmd(n, old, new) ==
    [cmd |-> "NameChanged", node |-> n, old_val |-> old, new_val |-> new]

(* ------------------------------------------------------------------ *)
(* Graph and node operations (base/graph.py, nodes/base.py).           *)
(* ------------------------------------------------------------------ *)

\* What create_node sets on the new instance before it is added:
\* NODE_NAME and model.name become get_unique_name(name or NODE_NAME),
\* model.text_color the colour, and node.update() copies the model to the
\* view. name is <<>> for None.
Named(g, n, name, color) ==
    [g EXCEPT !.name[n] = [model |-> get_unique_name(g, IF name = <<>> THEN NODE_NAME(n)
                                                        ELSE name[1]),
                           view  |-> get_unique_name(g, IF name = <<>> THEN NODE_NAME(n)
                                                        ELSE name[1])],
              !.text_color[n] = color]

\* NodeGraph.create_node(name, text_color, push_undo): the instance is
\* set up, then added by a NodeAddedCmd inside a "create node" macro.
create_node(g, n, name, color, push_undo) ==
    Ret(End(Apply(Begin(Named(g, n, name, color), push_undo),
                  NodeAddedCmd(n, TRUE), push_undo), push_undo), "ok")

\* for p in ports: if p.view.locked: p.set_locked(False, False, push_undo)
\*                 p.clear_connections(push_undo)
RECURSIVE ClearEach(_, _, _)
ClearEach(g, ps, push_undo) ==
    IF ps = <<>> THEN Ret(g, "ok")
    ELSE Then(clear_connections(
                  IF g.view_locked[Head(ps)]
                  THEN set_locked_one(g, Head(ps), FALSE, push_undo) ELSE g,
                  Head(ps), push_undo),
              LAMBDA h : ClearEach(h, Tail(ps), push_undo))

\* NodeGraph.delete_node(node, push_undo): input ports first, then outputs.
delete_node(g, n, push_undo) ==
    Then(ClearEach(Begin(g, push_undo), <<Port(n, IN_PORT), Port(n, OUT_PORT)>>, push_undo),
         LAMBDA h : Ret(End(Apply(h, NodesRemovedCmd(n, TRUE), push_undo), push_undo), "ok"))

\* set_property without its guard: a command whatever the value.
set_property_always(g, n, value, push_undo) ==
    Ret(Apply(g, PropertyChangedCmd(n, g.custom[n], value), push_undo), "ok")

\* BaseNode.set_property(name, value, push_undo) on the custom property.
set_property(g, n, value, push_undo) ==
    IF g.custom[n] = value THEN Ret(g, "ok")
    ELSE Ret(Apply(g, PropertyChangedCmd(n, g.custom[n], value), push_undo), "ok")

\* BaseNode.set_property("name", value, push_undo): the guard reads the
\* model's name; the value becomes get_unique_name(value).
set_name(g, n, value, push_undo) ==
    IF g.name[n].model = value THEN Ret(g, "ok")
    ELSE Ret(Apply(g, NameChangedCmd(n, g.name[n].model, get_unique_name(g, value)),
                   push_undo), "ok")

(* ------------------------------------------------------------------ *)
(* NodeFactory (base/factory.py).                                      *)
(* ------------------------------------------------------------------ *)

Classes == {Class(n) : n \in NodeIds} \cup {"A2"}

NodeTypes == {identifier(n) : n \in NodeIds}

\* Names given to register_node: create_node passes its `name` argument,
\* None by default.
Aliases == {"None", "alias"}

\* NodeFactory.__init__: both dicts empty (a missing key reads as "None"
\* in nodes and as the empty list in names).
NodeFactory ==
    [nodes |-> [t \in NodeTypes |-> "None"], names |-> [a \in Aliases |-> <<>>]]

\* A faulty registration that lets the later class replace the earlier.
register_node_overwrite(f, node, name, node_type) ==
    [f EXCEPT !.nodes[node_type] = node, !.names[name] = Append(@, node_type)]

\* NodeFactory.register_node(node, name, node_type)
register_node(f, node, name, node_type) ==
    IF f.nodes[node_type] # "None" THEN f
    ELSE [f EXCEPT !.nodes[node_type] = node, !.names[name] = Append(@, node_type)]

\* NodeFactory.create_node_instance(node_type): the class instantiated, or
\* None.
create_node_instance(f, node_type) == f.nodes[node_type]

RECURSIVE RegisterAll(_, _)
RegisterAll(f, ns) ==
    IF ns = <<>> THEN f
    ELSE RegisterAll(register_node(f, Class(Head(ns)), "None", identifier(Head(ns))), Tail(ns))

(* ------------------------------------------------------------------ *)
(* Sessions: NodeGraph._serialize and NodeGraph._deserialize           *)
(* (base/graph.py), NodeModel.properties (nodes/base_model.py).        *)
(* ------------------------------------------------------------------ *)

\* NodeModel.text_color: the field's default, and a colour given to
\* create_node(text_color=...).
DefaultColor == <<255, 255, 255, 180>>
Colors == {DefaultColor, <<255, 0, 0>>}

\* NodeObject.dtype() of a class: __identifier__ + "." + class name.
\* Class "A2" is a second class of that name in the same domain.
ClassType(c) == IF c \in {"A", "A2"} THEN "nodes.A"
                ELSE IF c = "B" THEN "nodes.B" ELSE "nodes.C"

\* _get_connected_ports(self.inputs): {port name: connected_ports} of the
\* node's input ports.
InputTables(g, n) ==
    <<[pname |-> Port(n, IN_PORT).name, conn_data |-> g.cp[Port(n, IN_PORT)]]>>

\* NodeModel.properties of a node made by create_node: the model fields
\* and the two port tables. create_node sets model.selected to its
\* `selected` argument (True by default) and model.text_color when the
\* argument is given; NodeModel.set_property never changes a model field.
\* Both "inputs" and "outputs" are built from self.inputs.
properties(g, n) ==
    [id |-> n, dtype |-> identifier(n), name |-> g.name[n].model,
     selected |-> TRUE, text_color |-> g.text_color[n],
     custom |-> g.custom[n],
     inputs |-> InputTables(g, n), outputs |-> InputTables(g, n)]

\* NodeModel.get_property(name): the entry of the dict properties builds
\* for a built-in name, the custom property otherwise.
get_property(g, n, name) ==
    IF name \in DOMAIN properties(g, n) THEN properties(g, n)[name] ELSE g.custom[n]

\* What _serialize stores under serial_data["nodes"][n_id]: the
\* properties after the port tables were popped.
NodeData(props) ==
    [id |-> props.id, dtype |-> props.dtype, name |-> props.name,
     selected |-> props.selected, text_color |-> props.text_color,
     custom |-> props.custom]

\* for conn_id, prt_names in conn_data.items(): for conn_prt in prt_names:
\* one pipe per entry; port_type is the key the node's own port goes under.
Pipe(port_type, n_id, pname, e) ==
    IF port_type = IN_PORT
    THEN [in |-> <<n_id, pname>>, out |-> <<e.id, e.name>>]
    ELSE [out |-> <<n_id, pname>>, in |-> <<e.id, e.name>>]

PipesOf(port_type, n_id, pname, es) ==
    [i \in 1..Len(es) |-> Pipe(port_type, n_id, pname, es[i])]

\* The pipes of every port table of one node, in iteration order.
RECURSIVE TablePipes(_, _, _)
TablePipes(port_type, n_id, tables) ==
    IF tables = <<>> THEN <<>>
    ELSE PipesOf(port_type, n_id, Head(tables).pname, Entries(Head(tables).conn_data))
         \o TablePipes(port_type, n_id, Tail(tables))

\* if pipe not in serial_data["connections"]: append(pipe)
RECURSIVE AppendNew(_, _)
AppendNew(connections, pipes) ==
    IF pipes = <<>> THEN connections
    ELSE AppendNew(IF InSeq(Head(pipes), connections) THEN connections
                   ELSE Append(connections, Head(pipes)),
                   Tail(pipes))

\* The loop over nodes_data of _serialize.
RECURSIVE SerializeNodes(_, _, _)
SerializeNodes(g, ns, data) ==
    IF ns = <<>> THEN data
    ELSE SerializeNodes(g, Tail(ns),
            [data EXCEPT
               !.nodes = Append(@, NodeData(properties(g, Head(ns)))),
               !.connections =
                   AppendNew(AppendNew(@, TablePipes(IN_PORT, Head(ns),
                                           properties(g, Head(ns)).inputs)),
                             TablePipes(OUT_PORT, Head(ns),
                                        properties(g, Head(ns)).outputs))])

\* NodeGraph._serialize(nodes). An empty "connections" list is popped,
\* which _deserialize reads back as the empty list.
serialize(g, ns) ==
    SerializeNodes(g, ns,
        [graph |-> [acyclic |-> g.acyclic,
                    accept_connection_types |-> g.accept,
                    reject_connection_types |-> g.reject],
         nodes |-> <<>>, connections |-> <<>>])

\* Node ids of a graph built by _deserialize: uuid4 gives every new
\* NodeModel an id no document names.
NewIds == <<"n1", "n2", "n3">>

NewPort(id, d) == [node |-> id, dtype |-> d, name |-> d]

NewPorts == {NewPort(NewIds[k], d) : k \in 1..Len(NewIds), d \in {IN_PORT, OUT_PORT}}

\* A NodeGraph right after construction, with node factory f. ids is the
\* local dict `nodes` of _deserialize: serialized id -> node built.
NewGraph(f) ==
    [factory |-> f, nodes |-> <<>>, ids |-> <<>>,
     cp |-> [p \in NewPorts |-> <<>>],
     acyclic |-> TRUE, accept |-> {}, reject |-> {},
     stack |-> <<>>, out |-> "ok"]

\* The node-building step of _deserialize for one n_data whose class is
\* registered: the instance starts from the NodeModel defaults
\* (selected False, text_color default); node.model.set_property(prop,
\* n_data[prop]) on a model field assigns into the dict NodeModel.properties
\* has just built and changes nothing; the custom property is stored;
\* NODE_NAME is taken from n_data and add_node makes
\* get_unique_name(NODE_NAME) the model's name and pushes NodeAddedCmd in a
\* macro.
add_node(h, n_data, cls) ==
    LET id == NewIds[Len(h.ids) + 1]
    IN [h EXCEPT
          !.nodes = Append(@, [id |-> id, dtype |-> ClassType(cls),
                               name |-> UniqueName(
                                   {h.nodes[i].name : i \in 1..Len(h.nodes)},
                                   Len(h.nodes), n_data.name),
                               selected |-> FALSE,
                               text_color |-> DefaultColor,
                               custom |-> n_data.custom]),
          !.ids = Append(@, [old |-> n_data.id, new |-> id]),
          !.stack = Append(@, <<NodeAddedCmd(id, FALSE)>>)]

\* "build the nodes": a node whose dtype the factory does not know is
\* skipped.
RECURSIVE BuildNodes(_, _)
BuildNodes(h, ns_data) ==
    IF ns_data = <<>> THEN h
    ELSE BuildNodes(
            IF create_node_instance(h.factory, Head(ns_data).dtype) = "None" THEN h
            ELSE add_node(h, Head(ns_data),
                          create_node_instance(h.factory, Head(ns_data).dtype)),
            Tail(ns_data))

\* nodes.get(nid) or self.get_node_by_id(nid): the node built for the
\* serialized id, else the node of the graph with that id; <<>> for None.
NodeFor(h, nid) ==
    IF \E i \in 1..Len(h.ids) : h.ids[i].old = nid
    THEN <<h.ids[CHOOSE i \in 1..Len(h.ids) : h.ids[i].old = nid].new>>
    ELSE IF \E i \in 1..Len(h.nodes) : h.nodes[i].id = nid THEN <<nid>>
    ELSE <<>>

\* A lookup that returns the node's port of direction d whatever name is
\* asked for.
PortFor_any(node, d, pname) ==
    IF node = <<>> THEN <<>> ELSE <<NewPort(node[1], d)>>

\* node.inputs().get(pname) / node.outputs().get(pname); <<>> for None.
PortFor(node, d, pname) ==
    IF node = <<>> THEN <<>>
    ELSE IF NewPort(node[1], d).name = pname THEN <<NewPort(node[1], d)>>
    ELSE <<>>

\* in_port.view.multi_connection: the flag the node's class gives the port.
NewMulti(h, p) ==
    \E i \in 1..Len(h.nodes) :
        /\ h.nodes[i].id = p.node
        /\ \E n \in NodeIds : /\ identifier(n) = h.nodes[i].dtype
                              /\ multi_connection(Port(n, p.dtype))

\* One connection of the document: both ends resolved, then
\* PortConnectedCmd(in_port, out_port) pushed when the input has no entry
\* yet or takes several connections.
BuildConnection(h, in_port, out_port) ==
    IF in_port = <<>> \/ out_port = <<>> THEN h
    ELSE IF h.cp[in_port[1]] = <<>> \/ NewMulti(h, in_port[1])
    THEN [AppendPeers(h, in_port[1], out_port[1]) EXCEPT
             !.stack = Append(@, <<PortConnectedCmd(in_port[1], out_port[1])>>)]
    ELSE h

\* "build the connections".
RECURSIVE BuildConnections(_, _)
BuildConnections(h, connections) ==
    IF connections = <<>> THEN h
    ELSE BuildConnections(
            BuildConnection(h,
                PortFor(NodeFor(h, Head(connections).in[1]), IN_PORT,
                        Head(connections).in[2]),
                PortFor(NodeFor(h, Head(connections).out[1]), OUT_PORT,
                        Head(connections).out[2])),
            Tail(connections))

\* NodeGraph._deserialize(data) on graph h.
deserialize(h, data) ==
    BuildConnections(
        BuildNodes([h EXCEPT !.acyclic = data.graph.acyclic,
                             !.accept = data.graph.accept_connection_types,
                             !.reject = data.graph.reject_connection_types],
                   data.nodes),
        data.connections)

(* ------------------------------------------------------------------ *)
(* The state machine.                                                  *)
(* ------------------------------------------------------------------ *)

\* Values of the custom property; only node "a" is given new values.
Values == {0, 1}

\* The ports set_locked is called on.
LockPorts == {Port("a", OUT_PORT), Port("c", IN_PORT)}

\* A link as the two calls that name it: from either end.
BothWays(links) == links \cup {<<l[2], l[1]>> : l \in links}

Link(m, n) == <<Port(m, OUT_PORT), Port(n, IN_PORT)>>

\* The calls of connect_to: a link called from either end, the link that
\* closes it into a cycle, a second source for b's input, and the input
\* created locked.
ConnectPairs ==
    BothWays({Link("a", "b")}) \cup {Link("b", "a"), Link("c", "b"), Link("a", "c")}

\* The calls of disconnect_from.
DisconnectPairs ==
    BothWays({Link("a", "b")}) \cup {Link("c", "b"), Link("a", "c")}

\* The ports clear_connections is called on.
ClearPorts == {Port("a", OUT_PORT), Port("b", IN_PORT), Port("c", IN_PORT)}

\* Calls of connect_to whatever the directions: a link from either end, two
\* outputs, two inputs, a port with itself, and the two ports of one node.
AnyPairs ==
    BothWays({Link("a", "b")}) \cup
    { <<Port("a", OUT_PORT), Port("b", OUT_PORT)>>,
      <<Port("b", IN_PORT), Port("a", IN_PORT)>>,
      <<Port("a", OUT_PORT), Port("a", OUT_PORT)>>,
      <<Port("a", OUT_PORT), Port("a", IN_PORT)>> }

\* The most recent call: the operation, and "ok" when it returned or the
\* exception it raised.
Called(op, out) == [op |-> op, out |-> out]

\* The graph right after construction (empty), or a session of the three
\* nodes whose undo stack was cleared (NodeGraph.clear_undo_stack).
InitGraph ==
    /\ created \in {{}, NodeIds}
    /\ nodes = created
    /\ connected_ports = [p \in Ports |-> <<>>]
    /\ locked = [p \in Ports |-> CreatedLocked(p)]
    /\ view_locked = [p \in Ports |-> CreatedLocked(p)]
    /\ custom = [n \in NodeIds |-> 0]
    /\ accept_connection_types = {}
    /\ reject_connection_types = {}
    /\ acyclic = TRUE
    /\ stack = <<>>
    /\ index = 0
    /\ depth = 0
    /\ snap = <<[nodes |-> nodes, custom |-> [n \in nodes |-> 0], connections |-> {}]>>
    /\ last = Called("init", "ok")
    /\ factory = IF created = {} THEN NodeFactory
                 ELSE RegisterAll(NodeFactory, <<"a", "b", "c">>)
    /\ doc = <<>>
    /\ loaded = <<>>
    /\ session = ""
    /\ nodes_deleted = FALSE
    /\ property_changed = FALSE
    /\ node_name = [n \in NodeIds |-> [model |-> NODE_NAME(n), view |-> NODE_NAME(n)]]
    /\ nodes_rank = [n \in NodeIds |-> -1]
    /\ rank_calls = 0

\* Nodes created without a text colour.
Init ==
    /\ InitGraph
    /\ text_color = [n \in NodeIds |-> DefaultColor]

\* The same, where node "a" of the session may have been created with a
\* text colour.
InitSession ==
    /\ InitGraph
    /\ text_color \in {[n \in NodeIds |-> IF n = "a" /\ created # {} THEN c
                                          ELSE DefaultColor] : c \in Colors}

\* The variables an operation's outcome r sets.
Commit(r) ==
    /\ nodes' = r.g.nodes
    /\ connected_ports' = r.g.cp
    /\ locked' = r.g.locked
    /\ view_locked' = r.g.view_locked
    /\ custom' = r.g.custom
    /\ accept_connection_types' = r.g.accept
    /\ reject_connection_types' = r.g.reject
    /\ acyclic' = r.g.acyclic
    /\ stack' = r.g.stack
    /\ index' = r.g.index
    /\ depth' = r.g.depth
    /\ snap' = r.g.snap
    /\ nodes_deleted' = r.g.nodes_deleted
    /\ property_changed' = r.g.property_changed
    /\ node_name' = r.g.name
    /\ nodes_rank' = r.g.rank
    /\ rank_calls' = r.g.rank_calls
    /\ text_color' = r.g.text_color

\* Operations that push are offered while the cursor is below the bound, no
\* macro was left open by an exception, and no peer is listed more than
\* MaxDup times (undoing disconnections that removed nothing lists a peer
\* again and again), and the session was not saved yet (once a document
\* was taken the graph is only walked with undo and redo, saved again and
\* loaded).
Room ==
    /\ index < MaxStack
    /\ depth = 0
    /\ doc = <<>>
    /\ \A p \in Ports : \A i \in 1..Len(connected_ports[p]) :
           Len(connected_ports[p][i].names) <= MaxDup

\* A call of operation op with outcome r.
Do(op, r) == Commit(r) /\ last' = Called(op, r.out)

\* The answers of the binding that make a difference to a call on p and q.
Binding(p, q) == IF EmitRaises(p, q) THEN BOOLEAN ELSE {FALSE}

\* How undo() or redo() of the commands cs may end: the state is the same,
\* the KeyError of a signal emission may reach the caller.
Ends(cs) ==
    IF \E i \in 1..Len(cs) : /\ cs[i].cmd \in {"PortConnected", "PortDisconnected"}
                              /\ EmitRaises(cs[i].source, cs[i].target)
    THEN {"ok", "KeyError"} ELSE {"ok"}

CreateNode(n, color) ==
    /\ Room
    /\ n \notin created
    /\ created' = created \cup {n}
    /\ factory' = register_node(factory, Class(n), "None", identifier(n))
    /\ Do("create_node", create_node(G, n, <<>>, color, TRUE))
    /\ UNCHANGED <<doc, loaded, session>>

DeleteNode(n) ==
    /\ Room
    /\ n \in nodes
    /\ Do("delete_node", delete_node(G, n, TRUE))
    /\ UNCHANGED <<created, factory, doc, loaded, session>>

ConnectTo(p, q) ==
    /\ Room
    /\ p.node \in nodes /\ q.node \in nodes
    /\ \E e \in Binding(p, q) :
          Do("connect_to", connect_to([G EXCEPT !.propagates = e], p, q, TRUE))
    /\ UNCHANGED <<created, factory, doc, loaded, session>>

DisconnectFrom(p, q) ==
    /\ Room
    /\ p.node \in nodes /\ q.node \in nodes
    /\ \E e \in Binding(p, q) :
          Do("disconnect_from", disconnect_from([G EXCEPT !.propagates = e], p, q, TRUE))
    /\ UNCHANGED <<created, factory, doc, loaded, session>>

ClearConnections(p) ==
    /\ Room
    /\ p.node \in nodes
    /\ Do("clear_connections", clear_connections(G, p, TRUE))
    /\ UNCHANGED <<created, factory, doc, loaded, session>>

SetLocked(p, state) ==
    /\ Room
    /\ p.node \in nodes
    /\ Do("set_locked", set_locked(G, p, state, TRUE, TRUE))
    /\ UNCHANGED <<created, factory, doc, loaded, session>>

SetProperty(n, v) ==
    /\ Room
    /\ n \in nodes
    /\ Do("set_property", set_property(G, n, v, TRUE))
    /\ UNCHANGED <<created, factory, doc, loaded, session>>

\* undo() and redo() where QUndoStack has an entry to act on; elsewhere the
\* call changes nothing.
Undo ==
    /\ depth = 0 /\ index > 0
    /\ \E out \in Ends(stack[index]) : Do("undo", Ret(undo(G), out))
    /\ UNCHANGED <<created, factory, doc, loaded, session>>

Redo ==
    /\ depth = 0 /\ index < Len(stack)
    /\ \E out \in Ends(stack[index + 1]) : Do("redo", Ret(redo(G), out))
    /\ UNCHANGED <<created, factory, doc, loaded, session>>

\* Every operation, on one link called from either end.
Next ==
    \/ \E n \in NodeIds : CreateNode(n, DefaultColor)
    \/ \E n \in NodeIds : DeleteNode(n)
    \/ \E pq \in BothWays({Link("a", "b")}) : ConnectTo(pq[1], pq[2])
    \/ \E pq \in BothWays({Link("a", "b")}) : DisconnectFrom(pq[1], pq[2])
    \/ \E p \in ClearPorts : ClearConnections(p)
    \/ \E p \in LockPorts, state \in BOOLEAN : SetLocked(p, state)
    \/ \E v \in Values : SetProperty("a", v)
    \/ Undo
    \/ Redo

Spec == Init /\ [][Next]_vars

\* The operations on ports, over the named calls.
NextPorts ==
    \/ \E pq \in ConnectPairs : ConnectTo(pq[1], pq[2])
    \/ \E pq \in DisconnectPairs : DisconnectFrom(pq[1], pq[2])
    \/ \E p \in ClearPorts : ClearConnections(p)
    \/ \E p \in LockPorts, state \in BOOLEAN : SetLocked(p, state)
    \/ Undo
    \/ Redo

SpecPorts == Init /\ [][NextPorts]_vars

\* connect_to on pairs of ports whatever their directions.
NextAny ==
    \/ \E pq \in AnyPairs : ConnectTo(pq[1], pq[2])
    \/ Undo
    \/ Redo

SpecAny == Init /\ [][NextAny]_vars

\* Every variable but the factory and the record of the last call.
graph_vars == <<created, nodes, connected_ports, locked, view_locked, custom,
                accept_connection_types, reject_connection_types, acyclic,
                stack, index, depth, snap, text_color, doc, loaded, session,
                node_name, nodes_rank, rank_calls>>

\* The constraints registered: on b's input, accept the output of a and
\* of c, and an input port of a (never met); on a's output, the input of b.
ConstraintRows ==
    { <<Port("b", IN_PORT), OUT_PORT, OUT_PORT, identifier("a")>>,
      <<Port("b", IN_PORT), IN_PORT, IN_PORT, identifier("a")>>,
      <<Port("a", OUT_PORT), IN_PORT, IN_PORT, identifier("b")>> }

\* The calls of connect_to made under constraints: the link the rows are
\* about, from either end, and a second source for b's input.
TablePairs == BothWays({Link("a", "b")}) \cup {Link("c", "b")}

AddAcceptPortType(port, pname, ptype, ntype) ==
    /\ port.node \in nodes
    /\ Do("add_accept_port_type",
          Ret(add_accept_port_type(G, port, pname, ptype, ntype), "ok"))
    /\ UNCHANGED <<created, factory, doc, loaded, session>>

AddRejectPortType(port, pname, ptype, ntype) ==
    /\ port.node \in nodes
    /\ Do("add_reject_port_type",
          Ret(add_reject_port_type(G, port, pname, ptype, ntype), "ok"))
    /\ UNCHANGED <<created, factory, doc, loaded, session>>

\* connect_to under constraint tables.
NextTables ==
    \/ \E r \in ConstraintRows : AddAcceptPortType(r[1], r[2], r[3], r[4])
    \/ \E r \in ConstraintRows : AddRejectPortType(r[1], r[2], r[3], r[4])
    \/ \E pq \in TablePairs : ConnectTo(pq[1], pq[2])
    \/ Undo
    \/ Redo

SpecTables == Init /\ [][NextTables]_vars

\* register_node called directly: any class under any name and node type.
RegisterNode(node, name, node_type) ==
    /\ factory' = register_node(factory, node, name, node_type)
    /\ last' = [op |-> "register_node", out |-> "ok", node |-> node,
                name |-> name, node_type |-> node_type, before |-> factory]
    /\ UNCHANGED graph_vars
    /\ nodes_deleted' = FALSE /\ property_changed' = FALSE

\* create_node_instance called directly: `out` is the class instantiated.
CreateNodeInstance(node_type) ==
    /\ last' = [op |-> "create_node_instance", node_type |-> node_type,
                out |-> create_node_instance(factory, node_type)]
    /\ UNCHANGED <<graph_vars, factory>>
    /\ nodes_deleted' = FALSE /\ property_changed' = FALSE

NextFactory ==
    \/ \E node \in Classes, name \in Aliases, node_type \in NodeTypes :
          RegisterNode(node, name, node_type)
    \/ \E node_type \in NodeTypes : CreateNodeInstance(node_type)

SpecFactory == Init /\ [][NextFactory]_vars

\* The nodes of ns that are in the graph, in the order a, b, c.
RECURSIVE Filter(_, _)
Filter(ns, S) ==
    IF ns = <<>> THEN <<>>
    ELSE (IF Head(ns) \in S THEN <<Head(ns)>> ELSE <<>>) \o Filter(Tail(ns), S)

\* NodeGraph.all_nodes()
all_nodes(g) == Filter(<<"a", "b", "c">>, g.nodes)

\* The node lists _serialize is called with, as the nodes listed that
\* are in the graph: every node (serialize_session), or b and c
\* (copy_nodes).
NodeLists == {<<"a", "b", "c">>, <<"b", "c">>}

\* The node factories of the graphs a document is loaded into: every
\* class registered, all but B, all but A, none.
Factories ==
    {RegisterAll(NodeFactory, ns) : ns \in {<<"a", "b", "c">>, <<"a", "c">>, <<"b", "c">>, <<>>}}

\* The calls of connect_to that build a session: a's output to b's input,
\* b's output back to a's input, c's output to b's input.
SessionPairs == {Link("a", "b"), Link("b", "a"), Link("c", "b")}

\* doc = graph._serialize(ns)
Serialize(ns) ==
    /\ depth = 0
    /\ doc' = <<serialize(G, Filter(ns, nodes))>>
    /\ loaded' = <<>>
    /\ last' = Called("serialize", "ok")
    /\ nodes_deleted' = FALSE /\ property_changed' = FALSE
    /\ UNCHANGED <<created, nodes, connected_ports, locked, view_locked, custom,
                   accept_connection_types, reject_connection_types, acyclic,
                   stack, index, depth, snap, text_color, factory, session,
                   node_name, nodes_rank, rank_calls>>

\* _deserialize(doc) on a new NodeGraph whose node_factory holds the
\* registrations f.
Deserialize(f) ==
    /\ doc # <<>>
    /\ loaded' = <<deserialize(NewGraph(f), doc[1])>>
    /\ last' = Called("deserialize", "ok")
    /\ nodes_deleted' = FALSE /\ property_changed' = FALSE
    /\ UNCHANGED <<created, nodes, connected_ports, locked, view_locked, custom,
                   accept_connection_types, reject_connection_types, acyclic,
                   stack, index, depth, snap, text_color, factory, doc, session,
                   node_name, nodes_rank, rank_calls>>

\* A graph is built by create_node, connect_to and set_property (with undo
\* and redo), then saved and loaded: editing ends at the first save.
NextSession ==
    \/ \E n \in NodeIds, c \in Colors : CreateNode(n, c)
    \/ \E pq \in SessionPairs : ConnectTo(pq[1], pq[2])
    \/ \E v \in Values : SetProperty("a", v)
    \/ Undo
    \/ Redo
    \/ \E ns \in NodeLists : Serialize(ns)
    \/ \E f \in Factories : Deserialize(f)

SpecSession == InitSession /\ [][NextSession]_vars

\* The graph itself as _deserialize finds it (import_session, paste_nodes):
\* its nodes (under the names their views show, which get_unique_name
\* reads), its ports with their tables, and the ports of the nodes the call
\* may build.
ThisGraph ==
    [factory |-> factory,
     nodes |-> [i \in 1..Len(all_nodes(G)) |->
                  [NodeData(properties(G, all_nodes(G)[i])) EXCEPT
                      !.name = node_name[all_nodes(G)[i]].view]],
     ids |-> <<>>,
     cp |-> [p \in Ports \cup NewPorts |->
                IF p \in Ports THEN connected_ports[p] ELSE <<>>],
     acyclic |-> acyclic,
     accept |-> accept_connection_types, reject |-> reject_connection_types,
     stack |-> SubSeq(stack, 1, index), out |-> "ok"]

\* graph._deserialize(doc) on the graph the document may have been taken
\* from; loaded is the graph after the call.
Import ==
    /\ doc # <<>>
    /\ depth = 0
    /\ loaded' = <<deserialize(ThisGraph, doc[1])>>
    /\ last' = Called("import", "ok")
    /\ nodes_deleted' = FALSE /\ property_changed' = FALSE
    /\ UNCHANGED <<created, nodes, connected_ports, locked, view_locked, custom,
                   accept_connection_types, reject_connection_types, acyclic,
                   stack, index, depth, snap, text_color, factory, doc, session,
                   node_name, nodes_rank, rank_calls>>

\* NodeFactory.clear_registered_nodes()
ClearRegisteredNodes ==
    /\ factory' = NodeFactory
    /\ last' = Called("clear_registered_nodes", "ok")
    /\ UNCHANGED <<graph_vars>>
    /\ nodes_deleted' = FALSE /\ property_changed' = FALSE

\* A session is built, saved, walked with undo and redo, and its document
\* is imported into the graph again.
NextImport ==
    \/ \E pq \in SessionPairs : ConnectTo(pq[1], pq[2])
    \/ Undo
    \/ Redo
    \/ ClearRegisteredNodes
    \/ \E ns \in NodeLists : Serialize(ns)
    \/ Import

SpecImport == Init /\ [][NextImport]_vars

\* The paths given to load_session and import_session: one that names no
\* file, a file json.load cannot parse, and the file the document was
\* saved to.
Paths == {"missing", "corrupt", "saved"}

\* os.path.isfile(file_path)
isfile(path) == path = "corrupt" \/ (path = "saved" /\ doc # <<>>)

\* The loop of clear_session: each node's input ports, then its output
\* ports, unlocked when view.locked and cleared (push_undo left True).
RECURSIVE ClearNodes(_, _)
ClearNodes(g, ns) ==
    IF ns = <<>> THEN Ret(g, "ok")
    ELSE Then(ClearEach(g, <<Port(Head(ns), IN_PORT), Port(Head(ns), OUT_PORT)>>, TRUE),
              LAMBDA h : ClearNodes(h, Tail(ns)))

\* What clear_session leaves once its loop is through: NodesRemovedCmd of
\* every node pushed, the undo stack cleared.
Emptied(g) ==
    [g EXCEPT !.nodes = {}, !.nodes_deleted = TRUE,
              !.stack = <<>>, !.index = 0, !.depth = 0,
              !.snap = <<StateView([g EXCEPT !.nodes = {}])>>]

\* NodeGraph.clear_session()
clear_session(g) ==
    Then(ClearNodes(g, all_nodes(g)), LAMBDA h : Ret(Emptied(h), "ok"))

\* The graph g, emptied by clear_session, as _deserialize finds it.
EmptyGraph(g) ==
    [NewGraph(factory) EXCEPT !.acyclic = g.acyclic, !.accept = g.accept,
                              !.reject = g.reject]

\* deserialize_session(layout_data, clear_session=False,
\* clear_undo_stack=True) on graph h: _deserialize, then the undo stack is
\* cleared.
deserialize_session(h, data) == [deserialize(h, data) EXCEPT !.stack = <<>>]

\* NodeGraph.import_session(file_path): IOError for a path that is no
\* file; a file that cannot be parsed is reported with print() and the call
\* returns; else the document is built into the graph, the undo stack
\* cleared and the path kept as the session.
ImportSession(path) ==
    /\ depth = 0
    /\ IF ~isfile(path)
       THEN /\ last' = Called("import_session", "IOError")
            /\ UNCHANGED <<graph_vars, factory>>
            /\ nodes_deleted' = FALSE /\ property_changed' = FALSE
       ELSE IF path = "corrupt"
       THEN /\ last' = Called("import_session", "ok")
            /\ UNCHANGED <<graph_vars, factory>>
            /\ nodes_deleted' = FALSE /\ property_changed' = FALSE
       ELSE /\ loaded' = <<deserialize_session(ThisGraph, doc[1])>>
            /\ stack' = <<>> /\ index' = 0
            /\ snap' = <<StateView(G)>>
            /\ session' = path
            /\ nodes_deleted' = FALSE /\ property_changed' = FALSE
            /\ last' = Called("import_session", "ok")
            /\ UNCHANGED <<created, nodes, connected_ports, locked, view_locked,
                           custom, accept_connection_types,
                           reject_connection_types, acyclic, depth, text_color,
                           factory, doc, node_name, nodes_rank, rank_calls>>

\* NodeGraph.load_session(file_path): IOError for a path that is no file;
\* else clear_session(), whose exception leaves the call, then
\* import_session(file_path).
LoadSession(path) ==
    /\ depth = 0
    /\ IF ~isfile(path)
       THEN /\ last' = Called("load_session", "IOError")
            /\ UNCHANGED <<graph_vars, factory>>
            /\ nodes_deleted' = FALSE /\ property_changed' = FALSE
       ELSE LET r == clear_session(G)
            IN /\ Do("load_session", r)
               /\ loaded' = IF r.out = "ok" /\ path = "saved"
                            THEN <<deserialize_session(EmptyGraph(r.g), doc[1])>>
                            ELSE loaded
               /\ session' = IF r.out # "ok" THEN session
                             ELSE IF path = "saved" THEN path ELSE ""
               /\ UNCHANGED <<created, factory, doc>>

\* A graph is built, saved, and session files are loaded and imported.
NextLoad ==
    \/ \E n \in NodeIds : CreateNode(n, DefaultColor)
    \/ \E pq \in SessionPairs : ConnectTo(pq[1], pq[2])
    \/ \E ns \in NodeLists : Serialize(ns)
    \/ \E path \in Paths : LoadSession(path)
    \/ \E path \in Paths : ImportSession(path)

SpecLoad == Init /\ [][NextLoad]_vars

\* NodeGraph.clear_undo_stack(): QUndoStack.clear() drops every command,
\* open macros included.
ClearUndoStack ==
    /\ doc = <<>>
    /\ stack' = <<>> /\ index' = 0 /\ depth' = 0
    /\ snap' = <<StateView(G)>>
    /\ last' = Called("clear_undo_stack", "ok")
    /\ nodes_deleted' = FALSE /\ property_changed' = FALSE
    /\ UNCHANGED <<created, nodes, connected_ports, locked, view_locked, custom,
                   accept_connection_types, reject_connection_types, acyclic,
                   text_color, factory, doc, loaded, session, node_name, nodes_rank, rank_calls>>

\* Links that fan out of c's multi-connection output, and a second source
\* for b's input.
FanPairs == {Link("c", "a"), Link("c", "b"), Link("a", "b")}

\* The ports of the fan clear_connections is called on.
FanPorts == {Port("c", OUT_PORT), Port("b", IN_PORT)}

\* A port with several peers is built, cleared, its node deleted.
NextFan ==
    \/ \E pq \in FanPairs : ConnectTo(pq[1], pq[2])
    \/ \E p \in FanPorts : ClearConnections(p)
    \/ \E n \in NodeIds : DeleteNode(n)
    \/ Undo
    \/ Redo
    \/ ClearUndoStack

SpecFan == Init /\ [][NextFan]_vars

\* self._undo_stack.push(NodesRemovedCmd(self, nodes)): emit_signal is left
\* at its default, True. The command of a list of nodes is kept as one
\* command per node in the same entry.
RECURSIVE RemoveNodes(_, _)
RemoveNodes(g, ns) ==
    IF ns = <<>> THEN g
    ELSE RemoveNodes(Apply(g, NodesRemovedCmd(Head(ns), TRUE), TRUE), Tail(ns))

\* NodeGraph.cut_nodes(nodes), after copy_nodes(nodes): one macro holding
\* the clearing of every port of the nodes and their removal.
cut_nodes(g, ns) ==
    Then(ClearNodes(Begin(g, TRUE), ns),
         LAMBDA h : Ret(End(RemoveNodes(h, ns), TRUE), "ok"))

\* The lists of nodes given to cut_nodes.
CutLists == {<<"a">>, <<"b", "a">>, <<"c">>}

\* graph.cut_nodes(ns): copy_nodes(ns) puts the document of the nodes on
\* the clipboard.
CutNodes(ns) ==
    /\ Room
    /\ Range(ns) \subseteq nodes
    /\ Do("cut_nodes", cut_nodes(G, ns))
    /\ doc' = <<serialize(G, ns)>>
    /\ loaded' = <<>>
    /\ UNCHANGED <<created, factory, session>>

\* Nodes are connected, cut or deleted, and the changes undone and redone.
NextCut ==
    \/ \E pq \in FanPairs : ConnectTo(pq[1], pq[2])
    \/ \E ns \in CutLists : CutNodes(ns)
    \/ \E n \in NodeIds : DeleteNode(n)
    \/ Undo
    \/ Redo

SpecCut == Init /\ [][NextCut]_vars

\* The names given to set_property("name", ...), and the nodes renamed.
NameValues == {"A", "X"}

\* node.set_property("name", value)
SetName(n, value) ==
    /\ Room
    /\ n \in nodes
    /\ Do("set_property", set_name(G, n, value, TRUE))
    /\ UNCHANGED <<created, factory, doc, loaded, session>>

\* Nodes are created, renamed and deleted, and the changes undone and
\* redone.
NextNames ==
    \/ \E n \in NodeIds : CreateNode(n, DefaultColor)
    \/ \E n \in {"a", "b"}, value \in NameValues : SetName(n, value)
    \/ \E n \in NodeIds : DeleteNode(n)
    \/ Undo
    \/ Redo
    \/ ClearUndoStack

SpecNames == Init /\ [][NextNames]_vars

\* ---- Auto layout (NodeGraph.auto_layout_nodes) ----

\* A walk that follows the connections of both sides of a node.
connected_nodes_both(g, n, down_stream) ==
    [err |-> "ok",
     nodes |-> {m \in g.nodes : <<n, m>> \in Edges(g) \/ <<m, n>> \in Edges(g)}]

\* BaseNode.connected_output_nodes() (down_stream) or connected_input_nodes()
\* of node n, its lists joined into one set: [err, nodes].
connected_nodes(g, n, down_stream) ==
    LET r == get_connected_ports(g, Port(n, IF down_stream THEN OUT_PORT ELSE IN_PORT))
    IN [err |-> r.err, nodes |-> {r.ports[i].node : i \in 1..Len(r.ports)}]

\* Orders in which a set of nodes may be iterated: any two nodes come in
\* either order.
Orders == {<<"a", "b", "c">>, <<"c", "b", "a">>}

\* nodes_rank[n] = rank whatever was there (the max() dropped).
Ranked_overwrite(r, n, rank) == [r EXCEPT ![n] = rank]

\* if n in nodes_rank: nodes_rank[n] = max(nodes_rank[n], rank)
\* else: nodes_rank[n] = rank
Ranked(r, n, rank) ==
    [r EXCEPT ![n] = IF @ >= 0 THEN (IF @ >= rank THEN @ ELSE rank) ELSE rank]

\* The recursion depth at which the interpreter raises RecursionError
\* (sys.getrecursionlimit(), scaled down: on three nodes a walk this deep
\* has gone round a cycle).
MaxDepth == 4

\* The ranking being computed: the dict nodes_rank, the number of calls of
\* _update_node_rank made so far, and "RecursionError" once the recursion
\* went deeper than MaxDepth.
Ranking == [rank |-> [n \in NodeIds |-> -1], calls |-> 0, err |-> "ok"]

\* NodeGraph._update_node_rank(node, nodes_rank, down_stream), called at
\* recursion depth level: every connected node is ranked one above node,
\* then walked in turn; ord is the order the set connected_nodes is iterated
\* in.  RankEach is its loop over the connected nodes ns still to visit.
RECURSIVE update_node_rank(_, _, _, _, _, _)
RECURSIVE RankEach(_, _, _, _, _, _, _)
update_node_rank(g, node, R, down_stream, ord, level) ==
    IF R.err # "ok" THEN R
    ELSE IF level > MaxDepth THEN [R EXCEPT !.err = "RecursionError"]
    ELSE RankEach(g, Filter(ord, connected_nodes(g, node, down_stream).nodes),
                  R.rank[node] + 1, [R EXCEPT !.calls = @ + 1], down_stream, ord, level)

RankEach(g, ns, rank, R, down_stream, ord, level) ==
    IF ns = <<>> \/ R.err # "ok" THEN R
    ELSE RankEach(g, Tail(ns), rank,
                  update_node_rank(g, Head(ns),
                                   [R EXCEPT !.rank = Ranked(@, Head(ns), rank)],
                                   down_stream, ord, level + 1),
                  down_stream, ord, level)

\* The loop of _compute_node_rank over the start nodes ns.
RECURSIVE ComputeEach(_, _, _, _, _)
ComputeEach(g, ns, R, down_stream, ord) ==
    IF ns = <<>> \/ R.err # "ok" THEN R
    ELSE ComputeEach(g, Tail(ns),
                     update_node_rank(g, Head(ns), [R EXCEPT !.rank[Head(ns)] = 0],
                                      down_stream, ord, 1),
                     down_stream, ord)

\* NodeGraph._compute_node_rank(nodes, down_stream)
compute_node_rank(g, ns, down_stream, ord) ==
    ComputeEach(g, ns, Ranking, down_stream, ord)

\* The edges followed by a layout: downstream from output to input,
\* upstream from input to output.
Towards(g, down_stream) == IF down_stream THEN Edges(g) ELSE Reverse(Edges(g))

\* What auto_layout_nodes does once the macro is open (g1), given the
\* ranking R of the start nodes: a recursion that went too deep raises;
\* rank_map[rank] raises KeyError when the ranks are not
\* 0..len(rank_map) - 1; each node is then placed in the column of its rank
\* (view.xy_pos, no command pushed) and the macro is closed.
Placed(g1, R) ==
    LET ranks == {R.rank[n] : n \in NodeIds} \ {-1}
    IN IF R.err # "ok" THEN Ret(g1, R.err)
       ELSE IF ranks # 0..(Cardinality(ranks) - 1)
       THEN Ret([g1 EXCEPT !.rank = R.rank, !.rank_calls = R.calls], "KeyError")
       ELSE Ret(endMacro([g1 EXCEPT !.rank = R.rank, !.rank_calls = R.calls]), "ok")

\* The list the ranking starts from: start_nodes, then the nodes of nodes
\* (all nodes for None) with nothing connected against the direction.
StartList(g, nodes_, down_stream, start_nodes) ==
    start_nodes \o
    Filter(IF nodes_ = <<>> THEN all_nodes(g) ELSE nodes_,
           {n \in g.nodes : connected_nodes(g, n, ~down_stream).nodes = {}})

\* NodeGraph.auto_layout_nodes(nodes, down_stream, start_nodes), nodes and
\* start_nodes <<>> for None: the macro is opened first; nodes defaults to
\* all nodes; those of nodes with nothing connected against the direction
\* are added to start_nodes; with no start node the call returns (the macro
\* stays open).  A peer that does not resolve raises from
\* connected_input_nodes / connected_output_nodes.
auto_layout_nodes(g, nodes_, down_stream, start_nodes, ord) ==
    LET g1     == beginMacro(g)
        errs   == {connected_nodes(g, n, d).err : n \in g.nodes, d \in BOOLEAN} \ {"ok"}
        starts == StartList(g, nodes_, down_stream, start_nodes)
    IN IF errs # {} THEN Ret(g1, CHOOSE e \in errs : TRUE)
       ELSE IF starts = <<>> THEN Ret(g1, "ok")
       ELSE Placed(g1, compute_node_rank(g, starts, down_stream, ord))

\* The nodes and start_nodes arguments of a layout: None, a node that has
\* an input, two start nodes of which the second lies below the first.
LayoutNodes == {<<>>, <<"a">>}
StartNodes == {<<>>, <<"b">>, <<"c", "b">>}

\* A call of auto_layout_nodes with outcome r: last also records the
\* arguments of the call.
Laid(r, nodes_, down_stream, start_nodes) ==
    /\ Commit(r)
    /\ last' = [op |-> "auto_layout_nodes", out |-> r.out, nodes |-> nodes_,
                down_stream |-> down_stream, start_nodes |-> start_nodes]

AutoLayoutNodes(nodes_, down_stream, start_nodes, ord) ==
    /\ Room
    /\ Range(nodes_) \cup Range(start_nodes) \subseteq nodes
    /\ Laid(auto_layout_nodes(G, nodes_, down_stream, start_nodes, ord),
            nodes_, down_stream, start_nodes)
    /\ UNCHANGED <<created, factory, doc, loaded, session>>

\* Two sources for a's multi-connection input, one of them a step further
\* from c than the other, and the link back from a to b.
LayoutPairs == {Link("c", "b"), Link("b", "a"), Link("c", "a"), Link("a", "b")}

\* A graph is wired and laid out in either direction.
NextLayout ==
    \/ \E pq \in LayoutPairs : ConnectTo(pq[1], pq[2])
    \/ \E ns \in LayoutNodes, down_stream \in BOOLEAN, start_nodes \in StartNodes, ord \in Orders :
          AutoLayoutNodes(ns, down_stream, start_nodes, ord)
    \/ ClearUndoStack

SpecLayout == Init /\ [][NextLayout]_vars

\* ---- Property changes ----

\* Names given to set_property("name", value): a name, the same name with
\* a space that get_unique_name strips, and another name.
PropertyNames == {"A", " A", "X"}

\* Properties are set to the value they have and to another, and the
\* changes undone and redone.
NextProperty ==
    \/ \E v \in Values : SetProperty("a", v)
    \/ \E n \in {"a", "b"}, value \in PropertyNames : SetName(n, value)
    \/ Undo
    \/ Redo
    \/ ClearUndoStack

SpecProperty == Init /\ [][NextProperty]_vars

\* ---- A session opened from a file ----

\* A session file of three nodes in which a's output feeds the inputs of b
\* and c (written by hand, or saved before class C locked its input).
SessionDocument ==
    [graph |-> [acyclic |-> TRUE, accept_connection_types |-> {},
                reject_connection_types |-> {}],
     nodes |-> [i \in 1..3 |->
                  [id |-> <<"a", "b", "c">>[i], dtype |-> identifier(<<"a", "b", "c">>[i]),
                   name |-> NODE_NAME(<<"a", "b", "c">>[i]), selected |-> FALSE,
                   text_color |-> DefaultColor, custom |-> 0]],
     connections |-> <<[in |-> <<"b", IN_PORT>>, out |-> <<"a", OUT_PORT>>],
                       [in |-> <<"c", IN_PORT>>, out |-> <<"a", OUT_PORT>>]>>]

\* The graph load_session builds from that file (the nodes' classes
\* registered).
Opened ==
    deserialize_session(NewGraph(RegisterAll(NodeFactory, <<"a", "b", "c">>)),
                        SessionDocument)

\* The node of the document a node of the opened graph was built for, and
\* the other way round.
DocId(new) == Opened.ids[CHOOSE i \in 1..Len(Opened.ids) : Opened.ids[i].new = new].old
BuiltId(old) == Opened.ids[CHOOSE i \in 1..Len(Opened.ids) : Opened.ids[i].old = old].new

\* The peer table of port p in the opened graph, its nodes called a, b, c
\* as in the document.
OpenedTable(p) ==
    [i \in 1..Len(Opened.cp[NewPort(BuiltId(p.node), p.dtype)]) |->
        [Opened.cp[NewPort(BuiltId(p.node), p.dtype)][i] EXCEPT !.id = DocId(@)]]

\* The session right after load_session: _deserialize pushes
\* PortConnectedCmd without a lock test, so c's input, locked by its class,
\* is connected; the undo stack was cleared.
InitOpened ==
    /\ created = NodeIds
    /\ nodes = created
    /\ connected_ports = [p \in Ports |-> OpenedTable(p)]
    /\ locked = [p \in Ports |-> CreatedLocked(p)]
    /\ view_locked = [p \in Ports |-> CreatedLocked(p)]
    /\ custom = [n \in NodeIds |-> 0]
    /\ accept_connection_types = {}
    /\ reject_connection_types = {}
    /\ acyclic = TRUE
    /\ stack = <<>>
    /\ index = 0
    /\ depth = 0
    /\ snap = <<StateView([nodes |-> nodes, cp |-> connected_ports, custom |-> custom])>>
    /\ last = Called("load_session", "ok")
    /\ factory = RegisterAll(NodeFactory, <<"a", "b", "c">>)
    /\ doc = <<>>
    /\ loaded = <<>>
    /\ session = "saved"
    /\ nodes_deleted = FALSE
    /\ property_changed = FALSE
    /\ node_name = [n \in NodeIds |-> [model |-> NODE_NAME(n), view |-> NODE_NAME(n)]]
    /\ nodes_rank = [n \in NodeIds |-> -1]
    /\ rank_calls = 0
    /\ text_color = [n \in NodeIds |-> DefaultColor]

\* The ports of the opened session that are cleared, and the links made
\* in it.
OpenedPorts == {Port("a", OUT_PORT), Port("b", IN_PORT), Port("b", OUT_PORT)}
OpenedPairs == {Link("b", "a"), Link("c", "b")}

\* The opened session is edited.
NextOpened ==
    \/ \E pq \in OpenedPairs : ConnectTo(pq[1], pq[2])
    \/ \E p \in OpenedPorts : ClearConnections(p)
    \/ Undo
    \/ Redo
    \/ ClearUndoStack

SpecOpened == InitOpened /\ [][NextOpened]_vars

\* ---- Connections made without an undo command ----

\* p.connect_to(q, push_undo=False)
ConnectQuietly(p, q) ==
    /\ depth = 0
    /\ doc = <<>>
    /\ p.node \in nodes /\ q.node \in nodes
    /\ \E e \in Binding(p, q) :
          Do("connect_to", connect_to([G EXCEPT !.propagates = e], p, q, FALSE))
    /\ UNCHANGED <<created, factory, doc, loaded, session>>

\* Nodes are created and linked, the links not recorded, and the creations
\* undone.
NextQuiet ==
    \/ \E n \in NodeIds : CreateNode(n, DefaultColor)
    \/ \E pq \in SessionPairs : ConnectQuietly(pq[1], pq[2])
    \/ Undo
    \/ Redo
    \/ ClearUndoStack

SpecQuiet == Init /\ [][NextQuiet]_vars

\* ---- Documents written outside the program ----

\* Session files _deserialize may be given: the one above, and one in
\* which b's single-connection output feeds the inputs of a and c.
Documents ==
    {SessionDocument,
     [SessionDocument EXCEPT
         !.connections = <<[in |-> <<"a", IN_PORT>>, out |-> <<"b", OUT_PORT>>],
                           [in |-> <<"c", IN_PORT>>, out |-> <<"b", OUT_PORT>>]>>]}

\* The document d is read from its file.
ReadDocument(d) ==
    /\ depth = 0
    /\ doc' = <<d>>
    /\ loaded' = <<>>
    /\ last' = Called("read", "ok")
    /\ nodes_deleted' = FALSE /\ property_changed' = FALSE
    /\ UNCHANGED <<created, nodes, connected_ports, locked, view_locked, custom,
                   accept_connection_types, reject_connection_types, acyclic,
                   stack, index, depth, snap, text_color, factory, session,
                   node_name, nodes_rank, rank_calls>>

\* A graph is wired, then documents are read and built into it.
NextDocuments ==
    \/ \E pq \in SessionPairs : ConnectTo(pq[1], pq[2])
    \/ Undo
    \/ Redo
    \/ \E d \in Documents : ReadDocument(d)
    \/ Import

SpecDocuments == Init /\ [][NextDocuments]_vars

(* ------------------------------------------------------------------ *)
(* Properties.                                                         *)
(* ------------------------------------------------------------------ *)

\* The peer entry that names port p.
Peer(p) == [id |-> p.node, name |-> p.name]

\* The peer entries of port p in the current state.
Peers(p) == PeerSet(connected_ports[p])

\* C1: symmetry. For every port P of a node in the graph and every peer
\* entry (N, q) of P, the opposite-direction port named q on node N has
\* the peer entry (P's node id, P's name).
C1_Symmetry ==
    \A p \in PortsOf(nodes) : \A e \in Peers(p) :
        \E o \in Ports : /\ o.node = e.id
                         /\ o.dtype = Opposite(p.dtype)
                         /\ o.name = e.name
                         /\ Peer(p) \in Peers(o)

\* C2: single-connection invariant. Every port of a node in the graph
\* whose multi_connection flag is false has at most one connected peer.
C2_SingleConnection ==
    \A p \in PortsOf(nodes) : ~multi_connection(p) => Cardinality(Peers(p)) <= 1

\* C3: acyclic invariant. While the acyclic flag is true, the directed node
\* graph (one edge per output-to-input connection) contains no cycle.
C3_Acyclic == acyclic => ~HasCycle(G)

\* C4: undo round trip. When every entry of the undo stack has been undone,
\* the observable state (node set, per-node properties, connection set)
\* equals the one the stack started from.
C4_UndoRoundTrip == (depth = 0 /\ index = 0) => StateView(G) = snap[1]

\* C5: redo round trip. When every entry of the undo stack has been redone,
\* the observable state equals the one observed when the last entry was
\* completed.
C5_RedoRoundTrip == (depth = 0 /\ index = Len(stack)) => StateView(G) = snap[index + 1]

\* A redo has just replayed a connection and brought the cursor back to the
\* top of a full stack.
C5_Witness ==
    /\ last = Called("redo", "ok")
    /\ depth = 0 /\ index = Len(stack) /\ index = MaxStack
    /\ stack[index][1].cmd = "PortConnected"
    /\ Connections(G) # {}

\* A port set_locked(True) was applied to (PortLockedCmd ran on it and was
\* neither undone nor followed by an unlock).
LockApplied(p) == view_locked[p] /\ ~CreatedLocked(p)

\* C6: lock is effective. A call of connect_to, disconnect_from or
\* clear_connections leaves the peers of every port that set_locked(True)
\* was applied to as they were.
C6_LockEffective ==
    [][last'.op \in {"connect_to", "disconnect_from", "clear_connections"} =>
          \A p \in Ports : LockApplied(p) => connected_ports'[p] = connected_ports[p]]_vars

\* A port that is locked for its user: created locked, or set_locked(True)
\* was applied to it.
Locked(p) == locked[p] \/ view_locked[p]

\* C7: connect_to(p, q) raises PortError whenever p or q is locked, and then
\* no port's connections and no undo-stack entry change.
C7_LockedConnectFails ==
    [][\A p \in Ports, q \in Ports :
          ((Locked(p) \/ Locked(q)) /\ ConnectTo(p, q)) =>
              /\ last'.out = "PortError"
              /\ connected_ports' = connected_ports
              /\ stack' = stack /\ index' = index]_vars

\* C8: disconnect_from(p, q) raises PortError when p or q is locked and then
\* leaves the connections and the undo stack unchanged; when neither is
\* locked and they are connected, afterwards q is not a peer of p and p is
\* not a peer of q.
C8_Disconnect ==
    [][\A p \in Ports, q \in Ports :
          DisconnectFrom(p, q) =>
              IF Locked(p) \/ Locked(q)
              THEN /\ last'.out = "PortError"
                   /\ connected_ports' = connected_ports
                   /\ stack' = stack /\ index' = index
              ELSE (Peer(q) \in Peers(p) /\ Peer(p) \in Peers(q)) =>
                      /\ Peer(q) \notin PeerSet(connected_ports'[p])
                      /\ Peer(p) \notin PeerSet(connected_ports'[q])]_vars

\* Connecting output o to input i would close a cycle of nodes.
WouldCycle(o, i) == o.node \in ReachFrom({i.node}, Edges(G))

Unconstrained ==
    accept_connection_types = {} /\ reject_connection_types = {}

\* Output o and input i sit on different nodes of the graph, are unlocked
\* and unconstrained, and linking them closes no cycle.
Connectable(o, i) ==
    /\ o.dtype = OUT_PORT /\ i.dtype = IN_PORT /\ o.node # i.node
    /\ {o.node, i.node} \subseteq nodes
    /\ ~Locked(o) /\ ~Locked(i)
    /\ Unconstrained
    /\ ~WouldCycle(o, i)

OutOf(p, y) == IF p.dtype = OUT_PORT THEN p ELSE y
InOf(p, y) == IF p.dtype = OUT_PORT THEN y ELSE p

\* C10: when a single-connection port p is connected to x and is then
\* connected to a different valid port y (from either side), afterwards p is
\* connected to exactly y and x no longer lists p.
C10_Replacement ==
    [][\A p \in Ports, x \in Ports, y \in Ports :
          (/\ ~multi_connection(p)
           /\ Peers(p) = {Peer(x)} /\ Peer(p) \in Peers(x)
           /\ y # x
           /\ Connectable(OutOf(p, y), InOf(p, y))
           /\ (ConnectTo(p, y) \/ ConnectTo(y, p))) =>
              /\ PeerSet(connected_ports'[p]) = {Peer(y)}
              /\ Peer(p) \notin PeerSet(connected_ports'[x])]_vars

\* C12: register_node called with a node type that is already registered
\* raises nothing, keeps the class registered first as the one
\* create_node_instance instantiates, and leaves the names lists unchanged.
C12_DuplicateRegistration ==
    (last.op = "register_node" /\ last.before.nodes[last.node_type] # "None") =>
        /\ last.out = "ok"
        /\ create_node_instance(factory, last.node_type)
               = last.before.nodes[last.node_type]
        /\ factory.names = last.before.names

C12_Witness ==
    /\ last.op = "register_node"
    /\ last.before.nodes[last.node_type] = "A"
    /\ last.node = "A2"
    /\ last.name = "alias"
    /\ create_node_instance(factory, last.node_type) = "A"

\* The row of table that has port p name port q.
Names(table, p, q) == Row(p, q.name, q.dtype, identifier(q.node)) \in table

\* Port p has at least one row in table.
Constrained(table, p) ==
    \E t \in table : t[1] = identifier(p.node) /\ t[2] = p.dtype /\ t[3] = p.name

\* C13: once port P has an accept entry, a connect_to step only ever gives P
\* a new peer that an accept entry of P names.
C13_AcceptWhitelist ==
    [][last'.op = "connect_to" =>
          \A P \in Ports, Q \in Ports :
              (/\ Constrained(accept_connection_types, P)
               /\ Q.dtype = Opposite(P.dtype)
               /\ Peer(Q) \notin Peers(P)
               /\ Peer(Q) \in PeerSet(connected_ports'[P])) =>
                  Names(accept_connection_types, P, Q)]_vars

AcceptRefuses(p, q) ==
    /\ \E t \in accept_connection_types :
          /\ t[1] = identifier(p.node) /\ t[2] = p.dtype /\ t[3] = p.name
          /\ t[4] = identifier(q.node)
    /\ ~Names(accept_connection_types, p, q)

Refused(p, q) ==
    \/ AcceptRefuses(p, q) \/ AcceptRefuses(q, p)
    \/ Names(reject_connection_types, p, q)
    \/ Names(reject_connection_types, q, p)

\* C15: a connect_to that reaches the constraint tables (the ports are not
\* yet connected and neither is locked) and is refused by them raises
\* nothing, leaves every port's connections unchanged, opens no macro and
\* adds no entry to the undo stack.
C15_RefusalSilent ==
    [][\A p \in Ports, q \in Ports :
          (/\ last'.op = "connect_to"
           /\ Refused(p, q)
           /\ Peer(p) \notin Peers(q)
           /\ ~locked[p] /\ ~locked[q]
           /\ ConnectTo(p, q)) =>
              /\ last'.out = "ok"
              /\ connected_ports' = connected_ports
              /\ depth' = 0
              /\ stack' = stack /\ index' = index]_vars

C15_Witness ==
    /\ last = Called("connect_to", "ok")
    /\ AcceptRefuses(Port("b", IN_PORT), Port("a", OUT_PORT))
    /\ reject_connection_types = {}
    /\ Peers(Port("b", IN_PORT)) = {}
    /\ Peers(Port("a", OUT_PORT)) = {}
    /\ index = 0 /\ stack = <<>> /\ depth = 0

\* C16: with acyclic true, a connect_to that would close a directed cycle
\* of nodes and is issued from a port with no peer (between unlocked,
\* unconstrained ports of opposite directions on nodes of the graph)
\* creates no connection and leaves every port's connections as they were.
C16_CycleRejected ==
    [][\A p \in Ports, q \in Ports :
          (/\ last'.op = "connect_to"
           /\ acyclic
           /\ q.dtype = Opposite(p.dtype)
           /\ {p.node, q.node} \subseteq nodes
           /\ ~Locked(p) /\ ~Locked(q)
           /\ Unconstrained
           /\ Peers(p) = {}
           /\ WouldCycle(OutOf(p, q), InOf(p, q))
           /\ ConnectTo(p, q)) =>
              connected_ports' = connected_ports]_vars

\* C17: connect_to(p, q) when p lists q and q lists p is a no-op: the call
\* returns normally, no peer list changes (no duplicate entry is added), no
\* entry is pushed on the undo stack, and no command runs (the connection
\* signals are emitted by the commands only), so no macro is opened.
C17_IdempotentConnect ==
    [][\A p \in Ports, q \in Ports :
          (/\ last'.op = "connect_to"
           /\ Peer(q) \in Peers(p) /\ Peer(p) \in Peers(q)
           /\ ConnectTo(p, q)) =>
              /\ last'.out = "ok"
              /\ connected_ports' = connected_ports
              /\ stack' = stack /\ index' = index
              /\ depth' = depth]_vars

\* A connect_to of two connected ports has returned while an undone entry
\* is still above the cursor: a call that pushed would have discarded it.
C17_Witness ==
    /\ last = Called("connect_to", "ok")
    /\ Peers(Port("a", OUT_PORT)) = {Peer(Port("b", IN_PORT))}
    /\ Peers(Port("b", IN_PORT)) = {Peer(Port("a", OUT_PORT))}
    /\ index = 1 /\ Len(stack) = 2 /\ depth = 0
    /\ stack[1][1].cmd = "PortConnected"

\* C18: p.connect_to(p) changes no peer list of any port and pushes nothing
\* on the undo stack.
C18_SelfConnectNoOp ==
    [][\A p \in Ports :
          (last'.op = "connect_to" /\ ConnectTo(p, p)) =>
              /\ connected_ports' = connected_ports
              /\ stack' = stack /\ index' = index]_vars

\* The ids of the nodes whose data the document holds.
SerializedIds == {m.id : m \in Range(doc[1].nodes)}

\* The entry _serialize is to hold for the connection of input i and
\* output o.
PipeOf(i, o) == [in |-> <<i.node, i.name>>, out |-> <<o.node, o.name>>]

\* The connections of the serialized nodes that exist in the graph: an
\* input and an output of nodes in the graph, one of them on a serialized
\* node, one listed by the other.
ExistingPipes ==
    {PipeOf(i, o) : <<i, o>> \in
        {io \in PortsOf(nodes) \X PortsOf(nodes) :
            /\ io[1].dtype = IN_PORT /\ io[2].dtype = OUT_PORT
            /\ (io[1].node \in SerializedIds \/ io[2].node \in SerializedIds)
            /\ (Peer(io[2]) \in Peers(io[1]) \/ Peer(io[1]) \in Peers(io[2]))}}

\* C19: right after _serialize, the "connections" list holds exactly one
\* entry per existing connection of the serialized nodes, "in" naming the
\* input port and "out" the output port, and no other entry.
C19_ConnectionsExact ==
    last = Called("serialize", "ok") =>
        /\ Range(doc[1].connections) = ExistingPipes
        /\ Len(doc[1].connections) = Cardinality(ExistingPipes)

\* The property values of a node model: every serialized field but the id.
PropertyValues(m) ==
    [dtype |-> m.dtype, name |-> m.name, selected |-> m.selected,
     text_color |-> m.text_color, custom |-> m.custom]

\* The connections of the graph as (input, output) pairs, and those of a
\* loaded graph h.
GraphPipes ==
    {io \in PortsOf(nodes) \X PortsOf(nodes) :
        /\ io[1].dtype = IN_PORT /\ io[2].dtype = OUT_PORT
        /\ Peer(io[2]) \in Peers(io[1])}

LoadedPipes(h) ==
    {io \in NewPorts \X NewPorts :
        /\ io[1].dtype = IN_PORT /\ io[2].dtype = OUT_PORT
        /\ Peer(io[2]) \in PeerSet(h.cp[io[1]])}

\* Loaded graph h equals the graph under the renaming r of node ids: the
\* same nodes with the same types and property values, the same
\* connections.
SameAs(h, r) ==
    /\ \A m, n \in nodes : r[m] = r[n] => m = n
    /\ {m.id : m \in Range(h.nodes)} = {r[n] : n \in nodes}
    /\ \A n \in nodes : \A m \in Range(h.nodes) :
          m.id = r[n] => PropertyValues(m) = PropertyValues(properties(G, n))
    /\ LoadedPipes(h) =
          {<<NewPort(r[io[1].node], IN_PORT), NewPort(r[io[2].node], OUT_PORT)>> :
               io \in GraphPipes}

\* C11: when the document of every node of the graph is loaded into an
\* empty graph whose factory knows the type of every node, the loaded graph
\* has as many nodes, with the same type identifiers and property values,
\* and the same connections, up to a renaming of the node ids.
C11_RoundTrip ==
    (/\ last = Called("deserialize", "ok")
     /\ doc[1] = serialize(G, all_nodes(G))
     /\ \A n \in nodes : create_node_instance(loaded[1].factory, identifier(n)) # "None") =>
        /\ Len(loaded[1].nodes) = Cardinality(nodes)
        /\ \E r \in [nodes -> Range(NewIds)] : SameAs(loaded[1], r)

\* The serialized nodes _deserialize is to build: those whose type the
\* factory knows, in document order.
RECURSIVE Known(_, _)
Known(f, ns_data) ==
    IF ns_data = <<>> THEN <<>>
    ELSE (IF create_node_instance(f, Head(ns_data).dtype) # "None"
          THEN <<Head(ns_data)>> ELSE <<>>) \o Known(f, Tail(ns_data))

\* The node built for serialized id nid has a port of direction d named
\* pname.
Resolves(h, nid, d, pname) ==
    \E i \in 1..Len(h.ids) : h.ids[i].old = nid /\ NewPort(h.ids[i].new, d).name = pname

\* The ports of h a resolvable connection c of the document joins.
Joined(h, c) ==
    <<NewPort(NodeFor(h, c.in[1])[1], IN_PORT), NewPort(NodeFor(h, c.out[1])[1], OUT_PORT)>>

\* C20: _deserialize raises nothing; it builds exactly the serialized nodes
\* whose type is registered, each with its serialized type, and connects
\* exactly the serialized connections whose two nodes were built and whose
\* two port names exist on them.
C20_TolerantLoad ==
    last = Called("deserialize", "ok") =>
        /\ loaded[1].out = "ok"
        /\ [i \in 1..Len(loaded[1].ids) |-> loaded[1].ids[i].old]
              = [i \in 1..Len(Known(loaded[1].factory, doc[1].nodes)) |->
                    Known(loaded[1].factory, doc[1].nodes)[i].id]
        /\ [i \in 1..Len(loaded[1].nodes) |-> loaded[1].nodes[i].dtype]
              = [i \in 1..Len(Known(loaded[1].factory, doc[1].nodes)) |->
                    Known(loaded[1].factory, doc[1].nodes)[i].dtype]
        /\ LoadedPipes(loaded[1]) =
              {Joined(loaded[1], c) : c \in
                  {x \in Range(doc[1].connections) :
                      /\ Resolves(loaded[1], x.in[1], IN_PORT, x.in[2])
                      /\ Resolves(loaded[1], x.out[1], OUT_PORT, x.out[2])}}
        /\ \A io \in LoadedPipes(loaded[1]) : Peer(io[1]) \in PeerSet(loaded[1].cp[io[2]])

\* A document of three nodes and two connections was loaded into a graph
\* that does not know class A: node a and the connection that names it are
\* skipped, the other two nodes and their connection are built.
C20_Witness ==
    /\ last = Called("deserialize", "ok")
    /\ Len(doc[1].nodes) = 3
    /\ Cardinality({c \in Range(doc[1].connections) : c.in[2] = IN_PORT}) = 2
    /\ create_node_instance(loaded[1].factory, "nodes.A") = "None"
    /\ Len(loaded[1].nodes) = 2
    /\ Cardinality(LoadedPipes(loaded[1])) = 1

\* The peers port p of graph h has before _deserialize runs on h: those of
\* the graph for a port of the graph, none for a port of a node built by
\* the call.
PeersBefore(p) == IF p \in Ports THEN Peers(p) ELSE {}

\* The input and output port a document entry c resolves to in h (<<>>
\* when it does not).
InPortOf(h, c) == PortFor(NodeFor(h, c.in[1]), IN_PORT, c.in[2])
OutPortOf(h, c) == PortFor(NodeFor(h, c.out[1]), OUT_PORT, c.out[2])

\* C21: after _deserialize, a document entry whose two ends resolve, the
\* only such entry for its input port and not yet a connection of the
\* graph, has been connected if and only if its input port had no connected
\* peer when the call began (whatever it had earlier) or is
\* multi-connection.
C21_DuplicationSafety ==
    last = Called("import", "ok") =>
        \A c \in Range(doc[1].connections) :
            (/\ InPortOf(loaded[1], c) # <<>> /\ OutPortOf(loaded[1], c) # <<>>
             /\ \A x \in Range(doc[1].connections) :
                   (InPortOf(loaded[1], x) = InPortOf(loaded[1], c)
                    /\ OutPortOf(loaded[1], x) # <<>>) => x = c
             /\ Peer(OutPortOf(loaded[1], c)[1])
                   \notin PeersBefore(InPortOf(loaded[1], c)[1])) =>
                (Peer(OutPortOf(loaded[1], c)[1])
                     \in PeerSet(loaded[1].cp[InPortOf(loaded[1], c)[1]])
                 <=> (\/ PeersBefore(InPortOf(loaded[1], c)[1]) = {}
                      \/ NewMulti(loaded[1], InPortOf(loaded[1], c)[1])))

\* C22: clear_connections on an unlocked port with at least one peer
\* returns normally and disconnects every peer: afterwards the port has no
\* peer entry and no port that was a peer holds an entry naming it.
C22_ClearDisconnectsAll ==
    [][\A p \in ClearPorts \cup FanPorts :
          (/\ last'.op = "clear_connections"
           /\ ~locked[p] /\ ~view_locked[p]
           /\ Peers(p) # {}
           /\ ClearConnections(p)) =>
              /\ last'.out = "ok"
              /\ PeerSet(connected_ports'[p]) = {}
              /\ \A o \in Ports :
                    (o.dtype = Opposite(p.dtype) /\ Peer(o) \in Peers(p)) =>
                        Peer(p) \notin PeerSet(connected_ports'[o])]_vars

\* clear_connections has returned on c's output, which had the inputs of
\* a and b as peers before the call (the macro it pushed is on top of the
\* stack): no port of the three names another any more.
C22_Witness ==
    /\ last = Called("clear_connections", "ok")
    /\ index > 0 /\ index = Len(stack)
    /\ \A i \in 1..Len(stack[index]) :
          stack[index][i].cmd \in {"PortDisconnected", "NodeInputDisconnected"}
    /\ {<<stack[index][i].source, stack[index][i].target>> :
            i \in {j \in 1..Len(stack[index]) : stack[index][j].cmd = "PortDisconnected"}}
          = {<<Port("c", OUT_PORT), Port("a", IN_PORT)>>,
             <<Port("c", OUT_PORT), Port("b", IN_PORT)>>}
    /\ Peers(Port("c", OUT_PORT)) = {}
    /\ Peers(Port("a", IN_PORT)) = {}
    /\ Peers(Port("b", IN_PORT)) = {}

\* C23: delete_node(n) on a node of the graph, whatever the lock state of
\* its ports, returns normally and removes n with all its connections:
\* afterwards n is not in the node map and no port of a remaining node
\* holds a peer entry naming a port of n.
C23_DeleteRemovesAll ==
    [][\A n \in NodeIds :
          (/\ last'.op = "delete_node"
           /\ DeleteNode(n)) =>
              /\ last'.out = "ok"
              /\ n \notin nodes'
              /\ \A p \in PortsOf(nodes') :
                    \A e \in PeerSet(connected_ports'[p]) : e.id # n]_vars

\* C24: load_session and import_session given a path that names no file or
\* a file that cannot be parsed end by raising, never by returning
\* normally.
C24_LoadFailureRaises ==
    [][\A path \in Paths :
          (~isfile(path) \/ path = "corrupt") =>
              /\ (last'.op = "load_session" /\ LoadSession(path))
                    => last'.out # "ok"
              /\ (last'.op = "import_session" /\ ImportSession(path))
                    => last'.out # "ok"]_vars

\* C25: a cut_nodes(ns) that returns has removed the nodes of ns from the
\* graph, and the nodes_deleted signal was not emitted during the call.
C25_CutIsSilent ==
    [][\A ns \in CutLists :
          (/\ last'.op = "cut_nodes" /\ last'.out = "ok"
           /\ CutNodes(ns)) =>
              /\ nodes' = nodes \ Range(ns)
              /\ ~nodes_deleted']_vars

\* The names get_unique_name is asked for.
NameArgs == {"A", " A", "A 1", "A  1", "A 2", "B", "X", "X 1"}

\* C26: get_unique_name(name) returns a name no node of the graph has, and
\* no two nodes of the graph have the same name (the name their views show,
\* which get_unique_name compares with).
C26_UniqueNames ==
    /\ \A name \in NameArgs : \A n \in nodes :
           get_unique_name(G, name) # node_name[n].view
    /\ \A m \in nodes, n \in nodes :
           node_name[m].view = node_name[n].view => m = n

\* The nodes a layout reaches n from in one step, and the length of the
\* longest path that ends at n, along the edges E of a graph without cycles.
Before(n, E) == {e[1] : e \in {x \in E : x[2] = n}}

MaxOf(S) == CHOOSE x \in S : \A y \in S : y <= x

RECURSIVE LongestTo(_, _)
LongestTo(n, E) ==
    IF Before(n, E) = {} THEN 0
    ELSE 1 + MaxOf({LongestTo(m, E) : m \in Before(n, E)})

\* C27: on a graph without cycles, auto_layout_nodes over all nodes with the
\* default start nodes, in either direction, ranks every node that has no
\* predecessor in that direction 0 and every other node one above the
\* highest rank among its predecessors, which is the length of the longest
\* path reaching it from a start node.
C27_LongestPathRank ==
    [][(/\ last'.op = "auto_layout_nodes"
        /\ last'.nodes = <<>> /\ last'.start_nodes = <<>>
        /\ depth = 0
        /\ nodes # {}
        /\ ~HasCycle(G))
          => /\ last'.out = "ok"
             /\ \A n \in nodes :
                  LET P == Before(n, Towards(G, last'.down_stream))
                  IN /\ nodes_rank'[n] = IF P = {} THEN 0
                                         ELSE 1 + MaxOf({nodes_rank'[m] : m \in P})
                     /\ nodes_rank'[n] = LongestTo(n, Towards(G, last'.down_stream))]_vars

\* A node with two predecessors of different rank was laid out.
C27_Witness ==
    /\ last.op = "auto_layout_nodes" /\ last.out = "ok"
    /\ last.nodes = <<>> /\ last.start_nodes = <<>>
    /\ Edges(G) = {<<"c", "b">>, <<"b", "a">>, <<"c", "a">>}
    /\ nodes_rank = [n \in NodeIds |-> IF n = "c" THEN 0 ELSE IF n = "b" THEN 1 ELSE 2]

\* The state of the nodes and of the graph, the undo stack apart.
NodeState == <<nodes, connected_ports, locked, view_locked, custom, text_color,
               node_name, nodes_rank, rank_calls, accept_connection_types,
               reject_connection_types, acyclic>>

\* An entry made of one property command whose old and new values are the
\* same.
SameValue(entry) ==
    /\ Len(entry) = 1
    /\ entry[1].cmd \in {"PropertyChanged", "NameChanged"}
    /\ entry[1].old_val = entry[1].new_val

\* C28: set_property with the value the node's model holds for the property
\* (a custom property, or "name") pushes no command, emits no
\* property_changed and changes no state; undo and redo of a property
\* command whose old and new values are the same change no state and emit
\* no property_changed either.
C28_NoOpGuard ==
    [][/\ \A v \in Values :
            (last'.op = "set_property" /\ SetProperty("a", v) /\ custom["a"] = v)
            => /\ UNCHANGED <<NodeState, stack, index, depth, snap>>
               /\ ~property_changed'
       /\ \A n \in {"a", "b"} : \A value \in PropertyNames :
            (last'.op = "set_property" /\ SetName(n, value) /\ node_name[n].model = value)
            => /\ UNCHANGED <<NodeState, stack, index, depth, snap>>
               /\ ~property_changed'
       /\ (last'.op = "undo" /\ Undo /\ SameValue(stack[index]))
            => UNCHANGED NodeState /\ ~property_changed'
       /\ (last'.op = "redo" /\ Redo /\ SameValue(stack[index + 1]))
            => UNCHANGED NodeState /\ ~property_changed']_vars

\* set_property was called with the stored value and did nothing, while a
\* command whose old and new values are the same, undone, lies above the
\* cursor.
C28_Witness ==
    /\ last = Called("set_property", "ok")
    /\ ~property_changed
    /\ index < Len(stack)
    /\ SameValue(stack[index + 1])

\* C29: with acyclic true, connect_to(p, q) that would close a cycle, from
\* a single-connection port p whose peer is x (unlocked, unconstrained
\* ports of opposite directions, p and q not yet connected), returns
\* normally, does not connect p and q, removes the connection of p and x
\* from both tables, and adds one entry to the undo stack whose undo brings
\* the connections back.
C29_ReplaceOnCycle ==
    [][\A p \in Ports, q \in Ports, x \in Ports :
          (/\ last'.op = "connect_to"
           /\ acyclic
           /\ q.dtype = Opposite(p.dtype)
           /\ {p.node, q.node} \subseteq nodes
           /\ ~Locked(p) /\ ~Locked(q)
           /\ Unconstrained
           /\ ~multi_connection(p)
           /\ Peers(p) = {Peer(x)} /\ Peer(p) \in Peers(x)
           /\ x # q
           /\ WouldCycle(OutOf(p, q), InOf(p, q))
           /\ ConnectTo(p, q)) =>
              /\ last'.out = "ok"
              /\ Peer(q) \notin PeerSet(connected_ports'[p])
              /\ Peer(p) \notin PeerSet(connected_ports'[q])
              /\ Peer(x) \notin PeerSet(connected_ports'[p])
              /\ Peer(p) \notin PeerSet(connected_ports'[x])
              /\ depth' = 0 /\ index' = index + 1 /\ Len(stack') = index'
              /\ StateView(UndoAll(G', stack'[index'])) = StateView(G)]_vars

\* The operations that record several commands as one macro.
CompositeOps == {"connect_to", "disconnect_from", "clear_connections", "delete_node"}

\* C30: a call of connect_to, disconnect_from, clear_connections or
\* delete_node with push_undo outside a macro that returns normally and
\* records anything adds exactly one entry to the undo stack, leaves no
\* macro open, and one undo restores the nodes and connections that held
\* before the call; a call that changes the nodes or connections records
\* an entry.
C30_OneUndoUnit ==
    [][(/\ last'.op \in CompositeOps
        /\ last'.out = "ok"
        /\ depth = 0) =>
          /\ (StateView(G') # StateView(G)) => index' = index + 1
          /\ (index' # index \/ stack' # stack) =>
                /\ depth' = 0
                /\ index' = index + 1
                /\ Len(stack') = index'
                /\ StateView(UndoAll(G', stack'[index'])) = StateView(G)]_vars

\* The number of walks along the edges E that leave node n (the walk that
\* stays at n included), and their sum over the nodes of a list.
RECURSIVE Walks(_, _)
RECURSIVE WalksOf(_, _)
Walks(n, E) == 1 + WalksOf(Filter(<<"a", "b", "c">>, {e[2] : e \in {x \in E : x[1] = n}}), E)

WalksOf(ns, E) == IF ns = <<>> THEN 0 ELSE Walks(Head(ns), E) + WalksOf(Tail(ns), E)

\* C31: on a graph without cycles the ranking of auto_layout_nodes, from
\* whatever start nodes, ends without the recursion running away: no
\* RecursionError is raised and the number of _update_node_rank calls made
\* is the number of walks that leave the start nodes.
C31_RankTerminates ==
    [][(/\ last'.op = "auto_layout_nodes"
        /\ depth = 0
        /\ ~HasCycle(G)
        /\ StartList(G, last'.nodes, last'.down_stream, last'.start_nodes) # <<>>)
          => /\ last'.out # "RecursionError"
             /\ rank_calls' = WalksOf(StartList(G, last'.nodes, last'.down_stream,
                                                last'.start_nodes),
                                      Towards(G, last'.down_stream))]_vars

\* A ranking from explicit start nodes ended after visiting nodes more than
\* once.
C31_Witness ==
    /\ last.op = "auto_layout_nodes" /\ last.out = "ok"
    /\ last.start_nodes = <<"c", "b">>
    /\ Edges(G) = {<<"c", "b">>, <<"b", "a">>, <<"c", "a">>}
    /\ rank_calls > Cardinality(nodes)

\* The operations that open an undo macro.
MacroOps == {"connect_to", "disconnect_from", "clear_connections", "create_node",
             "delete_node", "cut_nodes", "auto_layout_nodes"}

\* C32: an operation that opens an undo macro and returns normally leaves
\* the macro nesting depth as it found it, on every graph, the empty one
\* included.
C32_MacrosBalanced ==
    [][(last'.op \in MacroOps /\ last'.out = "ok") => depth' = depth]_vars

\* C33: clear_connections on an unlocked port that raises PortError (a
\* connected peer is locked) has removed none of the port's connections and
\* leaves no macro open.
C33_ClearFailureAtomic ==
    [][\A p \in OpenedPorts :
          (/\ last'.op = "clear_connections"
           /\ last'.out = "PortError"
           /\ depth = 0
           /\ ~locked[p]
           /\ ClearConnections(p)) =>
              /\ connected_ports'[p] = connected_ports[p]
              /\ depth' = 0]_vars

\* C34: every peer entry held by a port of a node in the graph names a
\* node that is in the graph and a port that node has.
C34_NoDanglingPeers ==
    \A c \in Connections(G) :
        /\ c[2].id \in nodes
        /\ Port(c[2].id, Opposite(c[1].dtype)).name = c[2].name

\* Ports p and q list each other neither way.
Apart(p, q) == Peer(q) \notin Peers(p) /\ Peer(p) \notin Peers(q)

\* C35: disconnect_from(p, q) on two unlocked ports that are not connected
\* changes no peer list, and undoing that call next leaves p and q
\* unconnected.
C35_DisconnectNeverConnects ==
    [][\A pq \in BothWays({Link("a", "b")}) :
          /\ (/\ last'.op = "disconnect_from"
              /\ ~Locked(pq[1]) /\ ~Locked(pq[2])
              /\ Apart(pq[1], pq[2])
              /\ DisconnectFrom(pq[1], pq[2]))
                => connected_ports' = connected_ports
          /\ (/\ last = Called("disconnect_from", "ok")
              /\ last'.op = "undo"
              /\ index > 0
              /\ \E i \in 1..Len(stack[index]) :
                    stack[index][i] = PortDisconnectedCmd(pq[1], pq[2])
              /\ <<pq[1], Peer(pq[2])>> \notin snap[index].connections
              /\ <<pq[2], Peer(pq[1])>> \notin snap[index].connections
              /\ Apart(pq[1], pq[2]))
                => /\ Peer(pq[2]) \notin PeerSet(connected_ports'[pq[1]])
                   /\ Peer(pq[1]) \notin PeerSet(connected_ports'[pq[2]])]_vars

\* C36: every peer entry a connect_to call adds to a port's table names a
\* port of the opposite direction; in particular a connect_to between two
\* ports of the same direction adds none.
C36_Directional ==
    [][last'.op = "connect_to" =>
          \A p \in Ports :
              \A e \in PeerSet(connected_ports'[p]) \ PeerSet(connected_ports[p]) :
                  e.name = Opposite(p.dtype)]_vars

\* C37: after _deserialize of a document, no port of the graph built that
\* takes a single connection, input or output, has more than one peer.
C37_LoadKeepsSingle ==
    last = Called("import", "ok") =>
        \A p \in NewPorts :
            ~NewMulti(loaded[1], p) => Cardinality(PeerSet(loaded[1].cp[p])) <= 1

\* C38: load_session given a file that exists but cannot be parsed leaves
\* the graph's nodes, its connections and the current session path as they
\* were before the call.
C38_FailedLoadKeepsSession ==
    [][(last'.op = "load_session" /\ LoadSession("corrupt"))
          => /\ nodes' = nodes
             /\ connected_ports' = connected_ports
             /\ session' = session]_vars

\* C39: on a graph without cycles, whatever nodes and start_nodes
\* auto_layout_nodes is given, every connection u -> v in the direction of
\* the layout between two ranked nodes has rank(v) >= rank(u) + 1, and the
\* ranks used are exactly 0..max.
C39_RanksRespectEdges ==
    [][(/\ last'.op = "auto_layout_nodes"
        /\ depth = 0
        /\ ~HasCycle(G)
        /\ StartList(G, last'.nodes, last'.down_stream, last'.start_nodes) # <<>>)
          => LET ranked == {n \in nodes : nodes_rank'[n] >= 0}
                 used   == {nodes_rank'[n] : n \in ranked}
             IN /\ \A e \in Towards(G, last'.down_stream) :
                      (e[1] \in ranked /\ e[2] \in ranked)
                          => nodes_rank'[e[2]] >= nodes_rank'[e[1]] + 1
                /\ used = 0..(Cardinality(used) - 1)]_vars

\* C40: once set_property has pushed its command and the command has called
\* NodeModel.set_property(name, v), for the custom property as for the
\* built-in "name", get_property(name) returns v and v is the value stored
\* under that name in the node's serialized properties.
C40_ModelRoundTrip ==
    [][(last'.op = "set_property" /\ index' = index + 1)
          => LET c == stack'[index'][1]
             IN /\ c.cmd = "PropertyChanged"
                      => /\ get_property(G', c.node, "my_prop") = c.new_val
                         /\ NodeData(properties(G', c.node)).custom = c.new_val
                /\ c.cmd = "NameChanged"
                      => /\ get_property(G', c.node, "name") = c.new_val
                         /\ NodeData(properties(G', c.node)).name = c.new_val]_vars

====
